---- MODULE Spec2Model ----
(***************************************************************************)
(* Model of the PRAPS2 pipelines: the geospatial deduplicator and the      *)
(* yearly snapshots of extract_surveys/surveys.py, the loops over the      *)
(* survey files of extract_surveys and sync_attachments, and the           *)
(* calculators, the legacy loader, the combination, the metadata join and  *)
(* the aggregation / filling / cumulation stages of                        *)
(* compute_indicators/indicators.py.                                       *)
(*                                                                         *)
(* Tables (polars dataframes) are sequences of records.  A nullable string *)
(* column holds None for a null; a numeric column holds a Num record, see  *)
(* below.  Floating point numbers are modelled as exact rationals.         *)
(***************************************************************************)
EXTENDS Integers, Sequences, FiniteSets, TLC

VARIABLES
    pc,           \* the stage the run has reached
    survey,       \* the survey table of transform_survey; the files of compute
    input,        \* the table handed to spatial_aggregation
    df,           \* the table of the compute task
    src,          \* the table the last stage received
    per_region,   \* the three aggregates of spatial_aggregation
    per_country,
    regional,
    files,        \* what a task finds at the path of each survey of its list
    todo,         \* the surveys its loop has still to visit
    log,          \* the surveys it logged a warning for
    done          \* the surveys it processed

fileVars == <<files, todo, log, done>>

vars == <<pc, survey, input, df, src, per_region, per_country, regional, files, todo, log,
          done>>

\* ------------------------------------------------------------------------
\* Bounds of the model
\* ------------------------------------------------------------------------
MaxRecords == 4

MaxPos == 3

MaxRows == 2

MaxValue == 2

MaxYear == 2022

\* a survey table handed to concatenate_snapshots has at most MaxSurvey records
MaxSurvey == 3

\* ------------------------------------------------------------------------
\* Generic helpers
\* ------------------------------------------------------------------------
None == "None"

Abs(x) == IF x < 0 THEN -x ELSE x

InSeq(x, s) == \E k \in 1..Len(s) : s[k] = x

RECURSIVE Concat(_)
Concat(ss) == IF ss = <<>> THEN <<>> ELSE Head(ss) \o Concat(Tail(ss))

MapSeq(s, Op(_)) == [k \in 1..Len(s) |-> Op(s[k])]

Sorted(s) == SortSeq(s, LAMBDA x, y : x < y)

RECURSIVE SortedSet(_)
SortedSet(S) ==
    IF S = {} THEN <<>>
    ELSE LET m == CHOOSE x \in S : \A y \in S : x <= y
         IN <<m>> \o SortedSet(S \ {m})

\* every enumeration of a set, for iteration orders polars leaves unspecified
Orderings(S) == {o \in [1..Cardinality(S) -> S] : \A a, b \in DOMAIN o : a # b => o[a] # o[b]}

\* ------------------------------------------------------------------------
\* extract_surveys/surveys.py : geospatial deduplicator
\* ------------------------------------------------------------------------
\* earth radius, in hectometres (6372.8 km)
R == 63728

\* min_distance of identify_duplicates, in metres
MinDistance == 1000

\* Great-circle distance in metres between two points given in thousandths
\* of a degree.  For two points of one meridian (lon1 = lon2) the source's
\* a is sin^2(dlat/2), so c = |dlat| in radians and the distance is
\* R * |dlat| * pi / 180, with pi taken as 355/113.
Haversine(lat1, lon1, lat2, lon2) ==
    (R * 355 * Abs(lat2 - lat1)) \div (113 * 180 * 10)

\* _check_coords: the coordinates struct is present and its list not empty
CheckCoords(row) == Len(row.coordinates) > 0

\* df.with_row_index(name="infrastructure_id")
WithRowIndex(t) == [k \in 1..Len(t) |-> t[k] @@ [infrastructure_id |-> k - 1]]

\* itertools.combinations(rows, 2), from position (a, b) on
RECURSIVE Combinations(_, _, _)
Combinations(rows, a, b) ==
    IF a >= Len(rows) THEN <<>>
    ELSE IF b > Len(rows) THEN Combinations(rows, a + 1, a + 2)
    ELSE <<(<<rows[a], rows[b]>>)>> \o Combinations(rows, a, b + 1)

\* IsDuplicatePair without the test of the distance
IsDuplicatePairAnyDistance(row1, row2) == CheckCoords(row1) /\ CheckCoords(row2)

IsDuplicatePair(row1, row2) ==
    /\ CheckCoords(row1)
    /\ CheckCoords(row2)
    /\ Haversine(row1.coordinates[1], row1.coordinates[2],
                 row2.coordinates[1], row2.coordinates[2]) <= MinDistance

\* LocalitePairs without the filter on the locality name
LocalitePairsAnyLocalite(t, localite) ==
    IF localite = None \/ localite = "" THEN <<>>
    ELSE LET df_ == t
         IN IF Len(df_) < 2 THEN <<>>
            ELSE MapSeq(SelectSeq(Combinations(df_, 1, 2),
                                  LAMBDA c : IsDuplicatePair(c[1], c[2])),
                        LAMBDA c : <<c[1].infrastructure_id, c[2].infrastructure_id>>)

\* body of the loop over localities: the pairs one locality adds
LocalitePairs(t, localite) ==
    IF localite = None \/ localite = "" THEN <<>>
    ELSE LET df_ == SelectSeq(t, LAMBDA r : r.localite = localite)
         IN IF Len(df_) < 2 THEN <<>>
            ELSE MapSeq(SelectSeq(Combinations(df_, 1, 2),
                                  LAMBDA c : IsDuplicatePair(c[1], c[2])),
                        LAMBDA c : <<c[1].infrastructure_id, c[2].infrastructure_id>>)

RECURSIVE Partners(_, _)
Partners(i, pairs) ==
    IF pairs = <<>> THEN <<>>
    ELSE LET pair == Head(pairs)
         IN (IF i = pair[1] \/ i = pair[2]
             THEN SelectSeq(pair, LAMBDA j : i # j)
             ELSE <<>>) \o Partners(i, Tail(pairs))

RECURSIVE GroupsFrom(_, _, _)
GroupsFrom(dup_flat, pairs, groups) ==
    IF dup_flat = <<>> THEN groups
    ELSE LET i == Head(dup_flat)
             group == Sorted(<<i>> \o Partners(i, pairs))
         IN GroupsFrom(Tail(dup_flat), pairs,
                       IF InSeq(group, groups) THEN groups ELSE Append(groups, group))

GroupPairs(pairs) ==
    LET dup_flat == SortedSet({pairs[k][1] : k \in 1..Len(pairs)}
                              \cup {pairs[k][2] : k \in 1..Len(pairs)})
    IN GroupsFrom(dup_flat, pairs, <<>>)

RECURSIVE ReassignFrom(_, _)
ReassignFrom(mapping, duplicate_groups) ==
    IF duplicate_groups = <<>> THEN mapping
    ELSE LET group == Head(duplicate_groups)
         IN ReassignFrom([i \in DOMAIN mapping |->
                             IF InSeq(i, group) THEN group[1] ELSE mapping[i]],
                         Tail(duplicate_groups))

ReassignIds(src_indexes, duplicate_groups) ==
    ReassignFrom([i \in src_indexes |-> i], duplicate_groups)

\* identify_duplicates; order is the order in which unique() hands out the
\* locality names
IdentifyDuplicates(t, order) ==
    LET d == WithRowIndex(t)
        pairs == Concat([k \in 1..Len(order) |-> LocalitePairs(d, order[k])])
    IN IF Len(pairs) = 0 THEN d
       ELSE LET groups == GroupPairs(pairs)
                mapping == ReassignIds({d[k].infrastructure_id : k \in 1..Len(d)}, groups)
            IN [k \in 1..Len(d) |->
                   [d[k] EXCEPT !.infrastructure_id = mapping[d[k].infrastructure_id]]]

\* survey records: a locality name (level_6) and a coordinates list (level_7)
Localites == {"", "a", "b"}

Lats == {6 * k : k \in 0..MaxPos}

SurveyRows ==
    [localite : Localites, coordinates : {<<>>} \cup {<<lat, 0>> : lat \in Lats}]

SurveyTables == UNION {[1..n -> SurveyRows] : n \in 0..MaxRecords}

NoTable == <<>>

\* the variables of the tasks that loop over survey files, in a run of
\* another task
NoFiles == files = <<>> /\ todo = <<>> /\ log = <<>> /\ done = {}

InitDedup ==
    /\ pc = "survey"
    /\ survey \in SurveyTables
    /\ input = NoTable
    /\ df = NoTable
    /\ src = NoTable
    /\ per_region = NoTable
    /\ per_country = NoTable
    /\ regional = NoTable
    /\ NoFiles

\* transform_survey's call of identify_duplicates
Deduplicate ==
    /\ pc = "survey"
    /\ \E order \in Orderings({survey[k].localite : k \in 1..Len(survey)}) :
          survey' = IdentifyDuplicates(survey, order)
    /\ pc' = "deduplicated"
    /\ UNCHANGED <<input, df, src, per_region, per_country, regional>>
    /\ UNCHANGED fileVars

NextDedup == Deduplicate

SpecDedup == InitDedup /\ [][NextDedup]_vars

\* ------------------------------------------------------------------------
\* Numbers of a numeric column: a null, a rational n/d in lowest terms, or
\* the float results of a division by zero
\* ------------------------------------------------------------------------
RECURSIVE GCD(_, _)
GCD(a, b) == IF b = 0 THEN a ELSE GCD(b, a % b)

NullNum == [k |-> "null", n |-> 0, d |-> 1]

NaN == [k |-> "nan", n |-> 0, d |-> 1]

Inf == [k |-> "inf", n |-> 0, d |-> 1]

Frac(n, d) ==
    LET g == GCD(Abs(n), d)
    IN [k |-> "num", n |-> n \div g, d |-> d \div g]

Num(i) == Frac(i, 1)

IsNull(x) == x.k = "null"

IsNum(x) == x.k = "num"

Add(x, y) == Frac(x.n * y.d + y.n * x.d, x.d * y.d)

\* x <= y on rationals
Leq(x, y) == x.n * y.d <= y.n * x.d

\* polars' true division of two columns
Div(x, y) ==
    IF IsNull(x) \/ IsNull(y) THEN NullNum
    ELSE IF ~IsNum(x) \/ ~IsNum(y) THEN NaN
    ELSE IF y.n = 0 THEN (IF x.n = 0 THEN NaN ELSE Inf)
    ELSE IF y.n > 0 THEN Frac(x.n * y.d, x.d * y.n)
    ELSE Frac(-(x.n * y.d), x.d * (-y.n))

\* fill_null(0)
FillNull0(x) == IF IsNull(x) THEN Num(0) ELSE x

\* Expr.sum(): nulls are skipped, the sum of no value is 0
RECURSIVE SumNums(_)
SumNums(xs) ==
    IF xs = <<>> THEN Num(0)
    ELSE IF IsNull(Head(xs)) THEN SumNums(Tail(xs))
    ELSE Add(Head(xs), SumNums(Tail(xs)))

\* Expr.mean(): nulls are skipped, the mean of no value is null
MeanNums(xs) ==
    LET present == SelectSeq(xs, LAMBDA x : ~IsNull(x))
    IN IF present = <<>> THEN NullNum
       ELSE Div(SumNums(present), Num(Len(present)))

\* cast(pl.Boolean).all().cast(pl.Float64): nulls are skipped
AllTrue(xs) ==
    IF \A k \in 1..Len(xs) : IsNull(xs[k]) \/ xs[k].n # 0 THEN Num(1) ELSE Num(0)

\* ------------------------------------------------------------------------
\* compute_indicators/indicators.py : tables of indicator rows
\* ------------------------------------------------------------------------
\* Strings in the order polars sorts them, nulls first
StringOrder ==
    <<None, "Agadez", "Gao", "IR-1", "IR-2", "IRI-10", "IRI-15", "IRI-17", "Kayes", "Mali",
      "Niger", "PRAPS1", "PRAPS2", "Régional">>

Rank(x) == CHOOSE k \in 1..Len(StringOrder) : StringOrder[k] = x

Column(t, c) == [k \in 1..Len(t) |-> t[k][c]]

Key(r, cols) == [c \in cols |-> r[c]]

Keys(t, cols) == {Key(t[k], cols) : k \in 1..Len(t)}

Rows(t) == {t[k] : k \in 1..Len(t)}

\* DataFrame.unique(subset=..., keep="first", maintain_order=True)
Unique(t, subset) ==
    LET kept == {k \in 1..Len(t) :
                    \A j \in 1..(k - 1) : Key(t[j], subset) # Key(t[k], subset)}
    IN MapSeq(SortedSet(kept), LAMBDA k : t[k])

\* DataFrame.sort(by=...) does not maintain the order of equal rows: every
\* arrangement of the rows that is ordered by Less is a possible outcome
RECURSIVE Arrangements(_, _, _)
Arrangements(t, I, lt) ==
    IF I = {} THEN {<<>>}
    ELSE UNION {{<<t[i]>> \o rest : rest \in Arrangements(t, I \ {i}, lt)} :
                  i \in {m \in I : \A j \in I : ~lt[j, m]}}

SortOutcomes(t, Less(_, _)) ==
    IF \A i, j \in 1..Len(t) : i # j => (Less(t[i], t[j]) \/ Less(t[j], t[i]))
    THEN {SortSeq(t, Less)}
    ELSE Arrangements(t, 1..Len(t),
                      [i \in 1..Len(t), j \in 1..Len(t) |-> Less(t[i], t[j])])

\* lexicographic order on tuples of integers
LexLess(a, b) ==
    \E k \in 1..Len(a) : a[k] < b[k] /\ \A j \in 1..(k - 1) : a[j] = b[j]

COUNT_UNITS == {"count", "weight", "surface"}

AGG_COLUMNS ==
    {"indicator_code", "indicator_name", "unit", "date", "project", "level",
     "country", "region"}

\* One row of a group_by(...).agg(...) once it is concatenated to the table
\* (how="diagonal_relaxed"): a column the aggregate does not have is null.
AggRow(key, agg_columns, numerator, denominator, value) ==
    [indicator_code |-> key["indicator_code"],
     indicator_name |-> key["indicator_name"],
     unit |-> key["unit"],
     date |-> key["date"],
     project |-> key["project"],
     level |-> key["level"],
     country |-> IF "country" \in agg_columns THEN key["country"] ELSE None,
     region |-> IF "region" \in agg_columns THEN key["region"] ELSE None,
     numerator |-> numerator,
     denominator |-> denominator,
     value |-> value]

GroupRows(t, key, agg_columns) == SelectSeq(t, LAMBDA r : Key(r, agg_columns) = key)

\* The four aggregators return the set of their rows: group_by hands out the
\* groups in no specified order.
\* aggregate_counts taking the mean of the values
AggregateCountsMean(t, agg_columns) ==
    LET f == SelectSeq(t, LAMBDA r : r.unit \in COUNT_UNITS)
    IN {AggRow(key, agg_columns, NullNum, NullNum,
               MeanNums(Column(GroupRows(f, key, agg_columns), "value"))) :
          key \in Keys(f, agg_columns)}

AggregateCounts(t, agg_columns) ==
    LET f == SelectSeq(t, LAMBDA r : r.unit \in COUNT_UNITS)
    IN {AggRow(key, agg_columns, NullNum, NullNum,
               SumNums(Column(GroupRows(f, key, agg_columns), "value"))) :
          key \in Keys(f, agg_columns)}

HasNumDen(r) == ~IsNull(r.numerator) /\ ~IsNull(r.denominator)

\* aggregate_ratios taking the mean of the rows' values
AggregateRatiosMean(t, agg_columns) ==
    LET f == SelectSeq(t, LAMBDA r : r.unit = "percent" /\ HasNumDen(r))
    IN {LET g == GroupRows(f, key, agg_columns)
        IN AggRow(key, agg_columns, SumNums(Column(g, "numerator")),
                  SumNums(Column(g, "denominator")), MeanNums(Column(g, "value"))) :
          key \in Keys(f, agg_columns)}

AggregateRatios(t, agg_columns) ==
    LET f == SelectSeq(t, LAMBDA r : r.unit = "percent" /\ HasNumDen(r))
    IN {LET g == GroupRows(f, key, agg_columns)
            numerator == SumNums(Column(g, "numerator"))
            denominator == SumNums(Column(g, "denominator"))
        IN AggRow(key, agg_columns, numerator, denominator, Div(numerator, denominator)) :
          key \in Keys(f, agg_columns)}

AggregateRatiosWithoutNumDen(t, agg_columns) ==
    LET f == SelectSeq(t, LAMBDA r : r.unit = "percent" /\ ~HasNumDen(r))
    IN {AggRow(key, agg_columns, NullNum, NullNum,
               MeanNums(Column(GroupRows(f, key, agg_columns), "value"))) :
          key \in Keys(f, agg_columns)}

\* aggregate_bools with any() in place of all()
AggregateBoolsAny(t, agg_columns) ==
    LET f == SelectSeq(t, LAMBDA r : r.unit = "boolean")
    IN {AggRow(key, agg_columns, NullNum, NullNum,
               LET vs == Column(GroupRows(f, key, agg_columns), "value")
               IN IF \E k \in 1..Len(vs) : ~IsNull(vs[k]) /\ vs[k].n # 0
                  THEN Num(1) ELSE Num(0)) :
          key \in Keys(f, agg_columns)}

AggregateBools(t, agg_columns) ==
    LET f == SelectSeq(t, LAMBDA r : r.unit = "boolean")
    IN {AggRow(key, agg_columns, NullNum, NullNum,
               AllTrue(Column(GroupRows(f, key, agg_columns), "value"))) :
          key \in Keys(f, agg_columns)}

\* One roll of spatial_aggregation: the rows of one level are aggregated, the
\* four results concatenated and given the level (and, for the last roll,
\* the country) of the target.  The result is the set of the tables the
\* concatenation can be, one per order of the groups.
Roll(t, level, agg_columns, target, country) ==
    LET df_lvl == SelectSeq(t, LAMBDA r : r.level = level)
        counts == AggregateCounts(df_lvl, agg_columns)
        ratios == AggregateRatios(df_lvl, agg_columns)
        ratios_ == AggregateRatiosWithoutNumDen(df_lvl, agg_columns)
        bools == AggregateBools(df_lvl, agg_columns)
        WithColumns(r) ==
            [r EXCEPT !.level = target,
                      !.country = IF country = None THEN @ ELSE country]
    IN {MapSeq(c \o ra \o rb \o b, WithColumns) :
          c \in Orderings(counts), ra \in Orderings(ratios),
          rb \in Orderings(ratios_), b \in Orderings(bools)}

AGG_KEY == {"indicator_code", "date", "level", "country", "region"}

\* .sort(["indicator_code", "date", "country", "region"]), nulls first
AggLess(r1, r2) ==
    LexLess(<<Rank(r1.indicator_code), r1.date, Rank(r1.country), Rank(r1.region)>>,
            <<Rank(r2.indicator_code), r2.date, Rank(r2.country), Rank(r2.region)>>)

\* CombineLevels keeping the last row of a key
CombineLevelsKeepLast(t) ==
    SortOutcomes(Unique(SelectSeq([k \in 1..Len(t) |-> t[Len(t) + 1 - k]],
                                  LAMBDA r : r.level <= 3), AGG_KEY), AggLess)

\* the last statement of spatial_aggregation (the select keeps the columns
\* the rows of this model have)
CombineLevels(t) ==
    SortOutcomes(Unique(SelectSeq(t, LAMBDA r : r.level <= 3), AGG_KEY), AggLess)

\* spatial_aggregation: the set of its possible results, each with the
\* three aggregates it went through
SpatialAggregation(t) ==
    UNION {UNION {UNION {
        {[df |-> out, per_region |-> pr, per_country |-> pcn, regional |-> rg] :
            out \in CombineLevels(t \o pr \o pcn \o rg)} :
        rg \in Roll(t \o pr \o pcn, 2, AGG_COLUMNS \ {"region", "country"}, 1, "Régional")} :
        pcn \in Roll(t \o pr, 3, AGG_COLUMNS \ {"region"}, 2, None)} :
        pr \in Roll(t, 6, AGG_COLUMNS, 3, None)}

\* the elements of a set of strings, in sorted order
RankSorted(S) == SortSeq(CHOOSE o \in Orderings(S) : TRUE, LAMBDA x, y : Rank(x) < Rank(y))

SetMax(S) == CHOOSE x \in S : \A y \in S : y <= x

Placeholder(code, name, unit, year, level, country, region) ==
    [indicator_code |-> code,
     indicator_name |-> name,
     unit |-> unit,
     date |-> year,
     project |-> IF year <= 2021 THEN "PRAPS1" ELSE "PRAPS2",
     level |-> level,
     country |-> country,
     region |-> region,
     numerator |-> NullNum,
     denominator |-> NullNum,
     value |-> NullNum]

\* The rows list of fill_missing_values.  The codes, countries and regions
\* are visited in sorted order; polars leaves the order of unique()
\* unspecified, which permutes rows only.
DfNulls(t) ==
    LET YEARS == SortedSet(2021..SetMax({t[k].date : k \in 1..Len(t)}))
        COUNTRIES == RankSorted({r.country : r \in {x \in Rows(t) : x.level = 2}})
        CodeRows(code) ==
            LET df_ == SelectSeq(t, LAMBDA r : r.indicator_code = code)
                name == df_[1].indicator_name
                unit == df_[1].unit
                maxlevel == SetMax({df_[k].level : k \in 1..Len(df_)})
                Regions(country) ==
                    RankSorted({r.region : r \in {x \in Rows(df_) : x.country = country}}
                               \ {None, ""})
                CountryRows(year, country) ==
                    (IF maxlevel >= 2
                     THEN <<Placeholder(code, name, unit, year, 2, country, None)>>
                     ELSE <<>>)
                    \o (IF maxlevel >= 3
                        THEN MapSeq(Regions(country),
                                    LAMBDA region :
                                        Placeholder(code, name, unit, year, 3, country, region))
                        ELSE <<>>)
                YearRows(year) ==
                    <<Placeholder(code, name, unit, year, 1, "Régional", None)>>
                    \o Concat(MapSeq(COUNTRIES, LAMBDA country : CountryRows(year, country)))
            IN Concat(MapSeq(YEARS, YearRows))
    IN Concat(MapSeq(RankSorted({t[k].indicator_code : k \in 1..Len(t)}), CodeRows))

FILL_KEY == {"indicator_code", "date", "country", "region"}

\* fill_missing_values with the placeholders concatenated before the rows
FillMissingValuesFillersFirst(t) == Unique(DfNulls(t) \o t, FILL_KEY)

FillMissingValues(t) == Unique(t \o DfNulls(t), FILL_KEY)

\* .sort(by="date").  The order of rows of equal date is unspecified; it
\* changes a running sum only if two rows of one window have the same date,
\* which WindowsHaveDistinctDates excludes for the tables that get here.
SortByDate(t) == SortSeq(t, LAMBDA r1, r2 : r1.date < r2.date)

\* the window without the region
WindowOfCountry == {"indicator_code", "country"}

WINDOW == {"indicator_code", "country", "region"}

\* Expr.fill_null(0).cum_sum().over(WINDOW), for row k of table t
CumSumOver(t, k, Val(_)) ==
    LET window == SelectSeq(SubSeq(t, 1, k), LAMBDA r : Key(r, WINDOW) = Key(t[k], WINDOW))
    IN SumNums(MapSeq(window, LAMBDA r : FillNull0(Val(r))))

\* columns the cumulated table has and df has not, null in a diagonal concat
Cumulated(r, cumulated_numerator, cumulated_denominator, cumulated_value,
          cumulated_value_praps2) ==
    r @@ [cumulated_numerator |-> cumulated_numerator,
          cumulated_denominator |-> cumulated_denominator,
          cumulated_value |-> cumulated_value,
          cumulated_value_praps2 |-> cumulated_value_praps2]

\* cumulate_counts without the running sum
CumulateCountsNoCumSum(t) ==
    Concat([level \in 1..3 |->
        LET s == SortByDate(SelectSeq(t, LAMBDA r : r.unit \in COUNT_UNITS /\ r.level = level))
        IN [k \in 1..Len(s) |->
               Cumulated(s[k], NullNum, NullNum, FillNull0(s[k].value),
                         IF s[k].project = "PRAPS1" THEN NullNum
                         ELSE FillNull0(s[k].value))]])

CumulateCounts(t) ==
    Concat([level \in 1..3 |->
        LET s == SortByDate(SelectSeq(t, LAMBDA r : r.unit \in COUNT_UNITS /\ r.level = level))
        IN [k \in 1..Len(s) |->
               Cumulated(s[k], NullNum, NullNum,
                         CumSumOver(s, k, LAMBDA r : r.value),
                         IF s[k].project = "PRAPS1" THEN NullNum
                         ELSE CumSumOver(s, k, LAMBDA r : IF r.project = "PRAPS2"
                                                           THEN r.value ELSE NullNum))]])

CumulateRatios(t) ==
    LET ratios ==
            Concat([level \in 1..3 |->
                LET s == SortByDate(SelectSeq(t, LAMBDA r : /\ r.unit = "percent"
                                                            /\ r.project = "PRAPS2"
                                                            /\ r.level = level))
                IN [k \in 1..Len(s) |->
                       Cumulated(s[k], CumSumOver(s, k, LAMBDA r : r.numerator),
                                 CumSumOver(s, k, LAMBDA r : r.denominator),
                                 NullNum, NullNum)]])
            \o MapSeq(SelectSeq(t, LAMBDA r : r.unit = "percent" /\ r.project = "PRAPS1"),
                      LAMBDA r : Cumulated(r, NullNum, NullNum, NullNum, NullNum))
    IN MapSeq(ratios,
              LAMBDA r : [r EXCEPT
                  !.cumulated_value = Div(r.cumulated_numerator, r.cumulated_denominator),
                  !.cumulated_value_praps2 = Div(r.cumulated_numerator, r.cumulated_denominator)])

CumulateBools(t) ==
    MapSeq(SelectSeq(t, LAMBDA r : r.unit = "boolean"),
           LAMBDA r : Cumulated(r, NullNum, NullNum, r.value, r.value))

\* .sort(by=["indicator_code", "country", "region", "date"])
CumulLess(r1, r2) ==
    LexLess(<<Rank(r1.indicator_code), Rank(r1.country), Rank(r1.region), r1.date>>,
            <<Rank(r2.indicator_code), Rank(r2.country), Rank(r2.region), r2.date>>)

\* cumulate_indicators: the set of its possible results
CumulateIndicators(t) ==
    SortOutcomes(CumulateCounts(t) \o CumulateRatios(t) \o CumulateBools(t), CumulLess)

\* ------------------------------------------------------------------------
\* compute_indicators/pipeline.py : the compute task, from the table
\* join_metadata returns
\* ------------------------------------------------------------------------
\* indicators_metadata.csv: unit and display name of the codes of the model;
\* a code without entry (IR-2 here) gets a null unit and a null name from
\* the left join of join_metadata
Unite(code) ==
    CASE code = "IR-1" -> "percent"
      [] code = "IRI-10" -> "count"
      [] code = "IRI-17" -> "percent"
      [] code = "IRI-15" -> "boolean"
      [] OTHER -> None

Designation(code) == IF Unite(code) = None THEN None ELSE code

Row(code, date, project, level, country, region, numerator, denominator, value) ==
    [indicator_code |-> code,
     indicator_name |-> Designation(code),
     unit |-> Unite(code),
     date |-> date,
     project |-> project,
     level |-> level,
     country |-> country,
     region |-> region,
     numerator |-> numerator,
     denominator |-> denominator,
     value |-> value]

\* Expr.round(3) of n/d; no input of the model falls on a tie
Round3(n, d) == Frac((2000 * n + d) \div (2 * d), 1000)

Places == {<<"Mali", "Gao">>, <<"Mali", "Kayes">>, <<"Niger", "Agadez">>}

Years == 2022..MaxYear

\* rows of the calculators: level-6 rows of a count indicator (the region of
\* a survey record may be missing), of a ratio indicator with numerator and
\* denominator (numerator <= denominator, denominator > 0, as iri_17 keeps
\* them) and of a boolean indicator, a row of a survey record dated in the
\* year of the legacy values, the level-2 rows of ir_1, a ratio without
\* numerator and denominator, and a level-2 row of ir_2, whose code has no
\* metadata entry
Praps2Rows ==
    {Row("IRI-10", y, "PRAPS2", 6, p[1], p[2], NullNum, NullNum, Num(v)) :
        y \in Years, p \in Places \cup {<<"Mali", None>>}, v \in 1..MaxValue}
    \cup {Row("IRI-17", y, "PRAPS2", 6, p[1], p[2], Num(1), Num(d), Round3(1, d)) :
            y \in Years, p \in Places, d \in 1..MaxValue}
    \cup {Row("IRI-15", y, "PRAPS2", 6, p[1], p[2], NullNum, NullNum, Num(b)) :
            y \in Years, p \in Places, b \in {0, 1}}
    \cup {Row("IRI-10", 2021, "PRAPS2", 6, "Mali", "Gao", NullNum, NullNum, Num(1))}
    \cup {Row("IR-1", y, "PRAPS2", 2, c, None, NullNum, NullNum, Round3(1, 2)) :
            y \in Years, c \in {"Mali", "Niger"}}
    \cup {Row("IR-2", y, "PRAPS2", 2, "Mali", None, NullNum, NullNum, Num(600)) :
            y \in Years}

\* rows of load_praps1_data: level 1 or 2, no region, no numerator
Praps1Rows ==
    {Row("IRI-10", 2021, "PRAPS1", 2, "Mali", None, NullNum, NullNum, Num(v)) :
        v \in 1..MaxValue}
    \cup {Row("IRI-10", 2021, "PRAPS1", 1, "Régional", None, NullNum, NullNum, Num(1)),
          Row("IRI-17", 2021, "PRAPS1", 2, "Mali", None, NullNum, NullNum, Frac(1, 2)),
          Row("IRI-15", 2021, "PRAPS1", 2, "Mali", None, NullNum, NullNum, Num(1))}

\* position of the rows of a code in combine_indicators: the legacy table
\* first, then the calculators in the order of the dataframes list
SourceRank(r) ==
    IF r.project = "PRAPS1" THEN 0
    ELSE CASE r.indicator_code = "IR-1" -> 1
           [] r.indicator_code = "IR-2" -> 2
           [] r.indicator_code = "IRI-10" -> 3
           [] r.indicator_code = "IRI-15" -> 4
           [] r.indicator_code = "IRI-17" -> 5

\* the tables combine_indicators and join_metadata can return: at least one
\* calculator row, the rows in the order of their sources
InputTables ==
    {t \in UNION {[1..n -> Praps1Rows \cup Praps2Rows] : n \in 1..MaxRows} :
        /\ \E k \in 1..Len(t) : t[k].project = "PRAPS2"
        /\ \A j, k \in 1..Len(t) : j < k => SourceRank(t[j]) <= SourceRank(t[k])}

Init ==
    /\ pc = "joined"
    /\ survey = NoTable
    /\ input \in InputTables
    /\ df = input
    /\ src = NoTable
    /\ per_region = NoTable
    /\ per_country = NoTable
    /\ regional = NoTable
    /\ NoFiles

\* df = indicators.spatial_aggregation(df)
SpatialAggregate ==
    /\ pc = "joined"
    /\ \E res \in SpatialAggregation(df) :
          /\ df' = res.df
          /\ per_region' = res.per_region
          /\ per_country' = res.per_country
          /\ regional' = res.regional
    /\ src' = df
    /\ pc' = "aggregated"
    /\ UNCHANGED <<survey, input>>
    /\ UNCHANGED fileVars

\* df = indicators.fill_missing_values(df); the table is never empty here
FillMissing ==
    /\ pc = "aggregated"
    /\ df' = FillMissingValues(df)
    /\ src' = df
    /\ pc' = "filled"
    /\ UNCHANGED <<survey, input, per_region, per_country, regional>>
    /\ UNCHANGED fileVars

\* df = indicators.cumulate_indicators(df)
Cumulate ==
    /\ pc = "filled"
    /\ df' \in CumulateIndicators(df)
    /\ src' = df
    /\ pc' = "cumulated"
    /\ UNCHANGED <<survey, input, per_region, per_country, regional>>
    /\ UNCHANGED fileVars

Next == SpatialAggregate \/ FillMissing \/ Cumulate

Spec == Init /\ [][Next]_vars

\* the running sums of the cumulator are over windows of distinct dates
WindowsHaveDistinctDates ==
    pc = "filled" =>
        \A j, k \in 1..Len(df) :
            (j # k /\ df[j].level = df[k].level /\ Key(df[j], WINDOW) = Key(df[k], WINDOW))
                => df[j].date # df[k].date

\* ------------------------------------------------------------------------
\* compute_indicators/indicators.py : the calculators
\* ------------------------------------------------------------------------
\* A string is a sequence of characters where the code looks inside it: the
\* date column before join_metadata.  Characters in the order of their codes.
Chars == <<"-", "0", "1", "2", "3", "4", "5", "6", "7", "8", "9">>

DigitChar(d) == Chars[d + 2]

DigitOf(c) == CHOOSE d \in 0..9 : DigitChar(d) = c

\* str(n) of a natural number
RECURSIVE Digits(_)
Digits(n) ==
    IF n < 10 THEN <<DigitChar(n)>>
    ELSE Digits(n \div 10) \o <<DigitChar(n % 10)>>

\* f"{year}-01-01"
FormatYear(year) == Digits(year) \o <<"-", "0", "1", "-", "0", "1">>

\* Expr.str.slice(offset, length)
StrSlice(s, offset, length) ==
    SubSeq(s, offset + 1, IF offset + length < Len(s) THEN offset + length ELSE Len(s))

\* cast(int) of a string of digits
RECURSIVE CastInt(_)
CastInt(s) ==
    IF Len(s) = 1 THEN DigitOf(s[1])
    ELSE 10 * CastInt(SubSeq(s, 1, Len(s) - 1)) + DigitOf(s[Len(s)])

\* order of two strings
StrLess(a, b) ==
    LET rank(c) == CHOOSE k \in 1..Len(Chars) : Chars[k] = c
    IN \/ \E k \in 1..Len(a) :
             /\ k <= Len(b)
             /\ rank(a[k]) < rank(b[k])
             /\ \A j \in 1..(k - 1) : a[j] = b[j]
       \/ Len(a) < Len(b) /\ SubSeq(b, 1, Len(a)) = a

\* the outcome of a calculator: it raised, or it returned one of the tables
\* of outcomes (several when the order of its rows is not determined)
Raised == [ok |-> FALSE, outcomes |-> {}]

Returned(tables) == [ok |-> TRUE, outcomes |-> tables]

\* a row of a calculator; a column it does not set is absent
CalcRow(code, date, level, country, value) ==
    [indicator_code |-> code, date |-> date, level |-> level, country |-> country,
     value |-> value]

WithRegion(r, region) == r @@ [region |-> region]

WithNumDen(r, numerator, denominator) ==
    r @@ [numerator |-> numerator, denominator |-> denominator]

\* truth value of a number or of a string in an if statement
TruthyNum(x) == IsNum(x) /\ x.n # 0

TruthyStr(s) == s # None /\ s # ""

\* x + y of two columns: null if one of them is null
Plus(x, y) == IF IsNull(x) \/ IsNull(y) THEN NullNum ELSE Add(x, y)

\* a comparison that is true (not false, not null)
Gt0(x) == IsNum(x) /\ x.n > 0

\* ir_1: row["DATE9"] / row["DATE8"] raises ZeroDivisionError when DATE8 = 0
Ir1(indicateurs_pays) ==
    LET df_ == SelectSeq(indicateurs_pays,
                         LAMBDA row : ~IsNull(row.DATE9) /\ ~IsNull(row.DATE8))
    IN IF \E k \in 1..Len(df_) : df_[k].DATE8.n = 0
       THEN Raised
       ELSE Returned({[k \in 1..Len(df_) |->
                CalcRow("IR-1", FormatYear(df_[k].DATE5), 2, df_[k].DATE4,
                        Round3(df_[k].DATE9.n, df_[k].DATE8.n))]})

\* ir_2: the field IR-2 of the country records.  pl.DataFrame([]) has no
\* column, so sort(by="date") raises when no record has the field.  The
\* cumulated_value column it adds is dropped by join_metadata.
Ir2(indicateurs_pays) ==
    LET src_ == SelectSeq(indicateurs_pays, LAMBDA row : ~IsNull(row.IR2))
        rows == [k \in 1..Len(src_) |->
                    CalcRow("IR-2", FormatYear(src_[k].DATE5), 2, src_[k].DATE4,
                            IF src_[k].IR2.n <= 500
                            THEN Num(src_[k].IR2.n * 1000000) ELSE src_[k].IR2)]
    IN IF rows = <<>> THEN Raised
       ELSE Returned(SortOutcomes(rows, LAMBDA r1, r2 : StrLess(r1.date, r2.date)))

\* ir_3: the sum of the sub-amounts of a landscape record whose conditions
\* hold.  CRDURA9 is tested for truth, the other answers for "Oui".  An empty
\* table gives a frame without columns, on which sort(by="date") raises.
Ir3Value(row) ==
    SumNums(<<IF /\ TruthyNum(row.CRDURA6c)
                 /\ row.CRDURA7 = "Oui"
                 /\ row.CRDURA8 = "Oui"
                 /\ row.CRDURA11 = "Oui"
                 /\ TruthyStr(row.CRDURA9)
              THEN row.CRDURA6c ELSE Num(0),
              IF TruthyNum(row.CRDURA26c) /\ row.CRDURA24 = "Oui"
              THEN row.CRDURA26c ELSE Num(0),
              IF TruthyNum(row.CRDURA43c) /\ row.CRDURA41 = "Oui"
              THEN row.CRDURA43c ELSE Num(0),
              IF TruthyNum(row.CRDURA58c) /\ row.CRDURA56 = "Oui"
              THEN row.CRDURA58c ELSE Num(0)>>)

Ir3(paysages) ==
    LET rows == [k \in 1..Len(paysages) |->
                    WithRegion(CalcRow("IR-3", paysages[k].DATE, 6, paysages[k].LODURA1,
                                       Ir3Value(paysages[k])),
                               paysages[k].LODURA2)]
    IN IF rows = <<>> THEN Raised
       ELSE Returned(SortOutcomes(rows, LAMBDA r1, r2 : StrLess(r1.date, r2.date)))

\* the shape the beneficiary counts share: a value column is computed, the
\* rows are selected and those whose value is > 0 are kept (a null value is
\* not > 0)
CountRows(t, code, Value(_)) ==
    LET rows == [k \in 1..Len(t) |->
                    WithRegion(CalcRow(code, t[k].DATE, 6, t[k].country, Value(t[k])),
                               t[k].region)]
    IN Returned({SelectSeq(rows, LAMBDA r : Gt0(r.value))})

Iri10(projects) ==
    CountRows(projects, "IRI-10",
              LAMBDA row : Plus(FillNull0(row.VAINO6), FillNull0(row.VAINO13)))

Iri101(projects) ==
    CountRows(projects, "IRI-101",
              LAMBDA row : Plus(Plus(Plus(FillNull0(row.VAINO9), FillNull0(row.VAINO11)),
                                     row.VAINO15), row.VAINO17))

Iri102(projects) ==
    CountRows(projects, "IRI-102",
              LAMBDA row : Plus(Plus(Plus(FillNull0(row.VAINO10), FillNull0(row.VAINO12)),
                                     row.VAINO16), row.VAINO18))

Iri103(projects) ==
    CountRows(projects, "IRI-103",
              LAMBDA row : Plus(FillNull0(row.VAINO7), FillNull0(row.VAINO14)))

Iri131(activites) ==
    CountRows(activites, "IRI-131",
              LAMBDA row : Plus(FillNull0(row.VAAGR8), FillNull0(row.VAAGR10)))

Iri132(activites) ==
    CountRows(activites, "IRI-132",
              LAMBDA row : Plus(FillNull0(row.VAAGR9), FillNull0(row.VAAGR11)))

\* iri_133: the records that hold VAAGR7, with VAAGR6 as their value
Iri133(activites) ==
    LET kept == SelectSeq(activites, LAMBDA row : ~IsNull(row.VAAGR7))
    IN Returned({[k \in 1..Len(kept) |->
            WithRegion(CalcRow("IRI-133", kept[k].DATE, 6, kept[k].country, kept[k].VAAGR6),
                       kept[k].region)]})

\* a column of lists of strings: a null or a list
NullList == [k |-> "null", items |-> <<>>]

List(items) == [k |-> "list", items |-> items]

\* Expr.list.contains(x), true (not false, not null)
ListContains(l, x) == l.k = "list" /\ InSeq(x, l.items)

LEADING_ROLES == {"Président (e)", "Sécrétaire (principal-e)", "Trésorier (ère)"}

\* the columns iri_16 reads in each of its four tables
IGVAC ==
    [committee |-> "IGVAC9", members |-> "IGVAC11", women |-> "IGVAC12",
     roles |-> "IGVAC12A", country |-> "LVAC1", region |-> "LVAC2"]

CRDURA ==
    [committee |-> "CRDURA11", members |-> "CRDURA13", women |-> "CRDURA14",
     roles |-> "CRDURA17", country |-> "LODURA1", region |-> "LODURA2"]

IGPE ==
    [committee |-> "IGPE6", members |-> "IGPE10", women |-> "IGPE11",
     roles |-> "IGPE11A3", country |-> "LPE1", region |-> "LPE2"]

IGMB ==
    [committee |-> "IGMB5", members |-> "IGMB7", women |-> "IGMB8",
     roles |-> "IGMBA", country |-> "LMB1", region |-> "LMB2"]

\* the when(...) of iri_16: it takes then(1) only where the condition is
\* true; a null count or a null list makes it null or false
CouncilsWithWomen(row, f) ==
    IF /\ Gt0(row[f.members])
       /\ IsNum(row[f.women])
       /\ 15 * row[f.members].n * row[f.women].d <= 100 * row[f.women].n * row[f.members].d
       /\ \E role \in LEADING_ROLES : ListContains(row[f.roles], role)
    THEN Num(1) ELSE Num(0)

\* Iri16Source without the filter on the committee field
Iri16SourceAllRecords(t, f) ==
    LET kept == t
    IN [k \in 1..Len(kept) |->
           WithNumDen(WithRegion(CalcRow("IRI-16", kept[k].DATE, 6, kept[k][f.country],
                                         CouncilsWithWomen(kept[k], f)),
                                 kept[k][f.region]),
                      CouncilsWithWomen(kept[k], f), Num(1))]

\* one of the four blocks of iri_16, for a table that has the role column
Iri16Source(t, f) ==
    LET kept == SelectSeq(t, LAMBDA row : row[f.committee] = "Oui")
    IN [k \in 1..Len(kept) |->
           WithNumDen(WithRegion(CalcRow("IRI-16", kept[k].DATE, 6, kept[k][f.country],
                                         CouncilsWithWomen(kept[k], f)),
                                 kept[k][f.region]),
                      CouncilsWithWomen(kept[k], f), Num(1))]

\* iri_16; columns holds the role columns the four tables have.  pl.concat
\* raises on an empty list, that is when no table has its role column.
Iri16(parcs_de_vaccination, gestion_durable, points_d_eau, marches_a_betail, columns) ==
    LET df1 == IF IGVAC.roles \in columns
               THEN <<Iri16Source(parcs_de_vaccination, IGVAC)>> ELSE <<>>
        df2 == IF CRDURA.roles \in columns
               THEN <<Iri16Source(gestion_durable, CRDURA)>> ELSE <<>>
        df3 == IF IGPE.roles \in columns
               THEN <<Iri16Source(points_d_eau, IGPE)>> ELSE <<>>
        df4 == IF IGMB.roles \in columns
               THEN <<Iri16Source(marches_a_betail, IGMB)>> ELSE <<>>
        dataframes == df1 \o df2 \o df3 \o df4
    IN IF dataframes = <<>> THEN Raised ELSE Returned({Concat(dataframes)})

\* ------------------------------------------------------------------------
\* compute_indicators/indicators.py : load_praps1_data
\* ------------------------------------------------------------------------
\* Expr.replace(COUNTRIES): a code the mapping does not hold stays as it is
ReplaceCountries(pays) ==
    CASE pays = "BF" -> "Burkina-Faso"
      [] pays = "MR" -> "Mauritanie"
      [] pays = "SN" -> "Sénégal"
      [] pays = "ML" -> "Mali"
      [] pays = "REGIONAL" -> "Régional"
      [] pays = "NE" -> "Niger"
      [] pays = "TD" -> "Tchad"
      [] OTHER -> pays

\* the codes whose legacy values are percentages between 0 and 100
PERCENT_CODES == {"IR-1", "IRI-17", "IRI-1", "IRI-9", "Reg Int 7"}

\* load_praps1_data, from the rows of the CSV file
LoadPraps1Data(csv) ==
    MapSeq(csv, LAMBDA r :
        [indicator_code |-> r.Code,
         date |-> FormatYear(r.annee),
         level |-> IF r.Pays = "REGIONAL" THEN 1 ELSE 2,
         country |-> ReplaceCountries(r.Pays),
         project |-> "PRAPS1",
         value |-> IF r.Code \in PERCENT_CODES THEN Div(r.valeur, Num(100))
                   ELSE r.valeur])

\* ------------------------------------------------------------------------
\* compute_indicators/indicators.py : combine_indicators and join_metadata
\* ------------------------------------------------------------------------
\* the columns of the combined table that the later stages read
COLUMNS ==
    {"indicator_code", "date", "project", "level", "country", "region",
     "numerator", "denominator", "value"}

\* the null of a column: of a number, of a date (a string the code looks
\* inside: the empty sequence, which no date is), of a level (0, which no
\* level is) and of a string
NullOf(column) ==
    CASE column \in {"numerator", "denominator", "value"} -> NullNum
      [] column = "date" -> <<>>
      [] column = "level" -> 0
      [] OTHER -> None

\* pl.concat(..., how="diagonal_relaxed") of frames: the rows in the order
\* of the frames, a column a frame does not have is null in its rows
DiagonalRelaxed(frames) ==
    MapSeq(Concat(frames),
           LAMBDA r : [c \in COLUMNS |-> IF c \in DOMAIN r THEN r[c] ELSE NullOf(c)])

\* combine_indicators on the files s, for the calculators of this model:
\* the set of its outcomes.  A calculator that raises ends the call; so does
\* pl.concat when every calculator returned an empty frame.
CombineIndicators(s) ==
    LET results ==
            <<Ir1(s.indicateurs_pays),
              Ir2(s.indicateurs_pays),
              Ir3(s.gestion_durable),
              Iri10(s.sous_projets),
              Iri101(s.sous_projets),
              Iri102(s.sous_projets),
              Iri103(s.sous_projets),
              Iri131(s.activites),
              Iri132(s.activites),
              Iri133(s.activites),
              Iri16(s.parcs_de_vaccination, s.gestion_durable, s.points_d_eau,
                    s.marches_a_betail, s.columns)>>
        Combined(dataframes) ==
            LET nonempty == SelectSeq(dataframes, LAMBDA t : t # <<>>)
            IN IF nonempty = <<>> THEN [ok |-> FALSE, df |-> NoTable]
               ELSE LET praps2 == MapSeq(DiagonalRelaxed(nonempty),
                                         LAMBDA r : [r EXCEPT !.project = "PRAPS2"])
                    IN [ok |-> TRUE, df |-> DiagonalRelaxed(<<s.praps1, praps2>>)]
    IN IF \E k \in 1..Len(results) : ~results[k].ok
       THEN {[ok |-> FALSE, df |-> NoTable]}
       ELSE {Combined([k \in 1..Len(results) |->
                          IF k = 2 THEN ir2 ELSE IF k = 3 THEN ir3
                          ELSE CHOOSE t \in results[k].outcomes : TRUE]) :
               ir2 \in results[2].outcomes, ir3 \in results[3].outcomes}

\* the row join_metadata selects from a row of df and a row of the metadata;
\* the year of a null date is null, held as 0
Joined(r, designation, unite) ==
    [indicator_code |-> r.indicator_code,
     indicator_name |-> designation,
     unit |-> unite,
     date |-> IF r.date = NullOf("date") THEN 0 ELSE CastInt(StrSlice(r.date, 0, 4)),
     project |-> r.project,
     level |-> r.level,
     country |-> r.country,
     region |-> r.region,
     numerator |-> r.numerator,
     denominator |-> r.denominator,
     value |-> r.value]

\* join_metadata with an inner join
JoinMetadataInner(t, indicators_metadata) ==
    Concat([k \in 1..Len(t) |->
        LET matches == SelectSeq(indicators_metadata,
                                 LAMBDA m : m.code # None /\ m.code = t[k].indicator_code)
        IN MapSeq(matches, LAMBDA m : Joined(t[k], m.designation, m.unite))])

\* join_metadata: a left join on the code, rows in the order of df; a null
\* code matches nothing
JoinMetadata(t, indicators_metadata) ==
    Concat([k \in 1..Len(t) |->
        LET matches == SelectSeq(indicators_metadata,
                                 LAMBDA m : m.code # None /\ m.code = t[k].indicator_code)
        IN IF matches = <<>> THEN <<Joined(t[k], None, None)>>
           ELSE MapSeq(matches, LAMBDA m : Joined(t[k], m.designation, m.unite))])

\* ------------------------------------------------------------------------
\* compute_indicators/pipeline.py : the compute task, from the files it
\* reads to the table join_metadata returns
\* ------------------------------------------------------------------------
Answers == {"Oui", "Non"}

\* the DATE of a survey record of year y
SurveyDate(y) == Digits(y) \o <<"-", "0", "3", "-", "1", "5">>

\* indicateurs_pays: a country record
PaysRecord(year, date8, date9, ir2) ==
    [DATE4 |-> "Mali", DATE5 |-> year, DATE8 |-> date8, DATE9 |-> date9, IR2 |-> ir2]

PaysRecords ==
    {PaysRecord(2022, d8, d9, Num(1)) :
        d8 \in {NullNum, Num(0), Num(2), Num(3)}, d9 \in {NullNum, Num(1), Num(4)}}
    \cup {PaysRecord(y, NullNum, NullNum, v) :
            y \in {2022, 2023}, v \in {NullNum, Num(1), Num(600)}}

\* gestion_durable: a landscape record, read by ir_3 and by iri_16
GestionRecord(year, amounts, chain, conditions) ==
    [DATE |-> SurveyDate(year), LODURA1 |-> "Mali", LODURA2 |-> "Gao",
     CRDURA6c |-> amounts[1], CRDURA7 |-> chain[1], CRDURA8 |-> chain[2],
     CRDURA11 |-> chain[3], CRDURA9 |-> chain[4],
     CRDURA26c |-> amounts[2], CRDURA24 |-> conditions[1],
     CRDURA43c |-> amounts[3], CRDURA41 |-> conditions[2],
     CRDURA58c |-> amounts[4], CRDURA56 |-> conditions[3],
     CRDURA13 |-> Num(20), CRDURA14 |-> Num(3),
     CRDURA17 |-> List(<<"Président (e)">>)]

Amounts == <<Num(1), Num(2), Num(4), Num(8)>>

GestionRecords ==
    {GestionRecord(2022, Amounts, <<c7, c8, c11, c9>>, <<"Non", "Non", "Non">>) :
        c7 \in Answers, c8 \in Answers, c11 \in Answers, c9 \in Answers \cup {None}}
    \cup {GestionRecord(2022, Amounts, <<"Non", "Non", "Non", "Non">>, <<c24, c41, c56>>) :
            c24 \in Answers, c41 \in Answers, c56 \in Answers}
    \cup {GestionRecord(2022, <<a, Num(2), NullNum, Num(8)>>,
                        <<"Oui", "Oui", "Oui", "Oui">>, <<"Oui", "Oui", "Oui">>) :
            a \in {NullNum, Num(0), Num(1)}}
    \cup {GestionRecord(2023, Amounts, <<"Oui", "Oui", "Oui", "Oui">>, <<"Oui", "Oui", "Oui">>)}

\* a record of one of the three other tables iri_16 reads, f its columns
CouncilRecord(f, committee, members, women, roles) ==
    (f.committee :> committee) @@ (f.members :> members) @@ (f.women :> women)
    @@ (f.roles :> roles) @@ (f.country :> "Mali") @@ (f.region :> "Gao")
    @@ [DATE |-> SurveyDate(2022)]

RoleLists ==
    {NullList, List(<<"Membre">>), List(<<"Membre", "Trésorier (ère)">>)}

CouncilRecords(f) ==
    {CouncilRecord(f, committee, members, women, roles) :
        committee \in Answers, members \in {NullNum, Num(0), Num(20)},
        women \in {Num(2), Num(3)}, roles \in RoleLists}
    \cup {CouncilRecord(f, None, Num(20), Num(3), List(<<"Président (e)">>)),
          CouncilRecord(f, "Oui", Num(20), NullNum, List(<<"Président (e)">>))}

\* sous_projets: LINO1 and LINO2 are the country and the region
NullProject ==
    [DATE |-> SurveyDate(2022), country |-> "Mali", region |-> "Gao",
     VAINO6 |-> NullNum, VAINO7 |-> NullNum, VAINO9 |-> NullNum, VAINO10 |-> NullNum,
     VAINO11 |-> NullNum, VAINO12 |-> NullNum, VAINO13 |-> NullNum, VAINO14 |-> NullNum,
     VAINO15 |-> NullNum, VAINO16 |-> NullNum, VAINO17 |-> NullNum, VAINO18 |-> NullNum]

ProjectRecords ==
    {[NullProject EXCEPT !.VAINO6 = a, !.VAINO13 = b] :
        a \in {NullNum, Num(0), Num(5)}, b \in {NullNum, Num(2)}}
    \cup {[NullProject EXCEPT !.VAINO9 = a, !.VAINO11 = b, !.VAINO15 = c, !.VAINO17 = d] :
            a \in {NullNum, Num(0), Num(5)}, b \in {NullNum, Num(2)},
            c \in {NullNum, Num(0)}, d \in {NullNum, Num(1)}}
    \cup {[NullProject EXCEPT !.VAINO10 = a, !.VAINO16 = c, !.VAINO18 = d] :
            a \in {NullNum, Num(5)}, c \in {NullNum, Num(0)}, d \in {NullNum, Num(1)}}
    \cup {[NullProject EXCEPT !.VAINO7 = a, !.VAINO14 = b] :
            a \in {NullNum, Num(0), Num(5)}, b \in {NullNum, Num(2)}}

\* activites: LAGR1 and LAGR2 are the country and the region
NullActivity ==
    [DATE |-> SurveyDate(2022), country |-> "Mali", region |-> "Gao",
     VAAGR6 |-> NullNum, VAAGR7 |-> NullNum, VAAGR8 |-> NullNum, VAAGR9 |-> NullNum,
     VAAGR10 |-> NullNum, VAAGR11 |-> NullNum]

ActivityRecords ==
    {[NullActivity EXCEPT !.VAAGR6 = a, !.VAAGR7 = b] :
        a \in {NullNum, Num(0), Num(4)}, b \in {NullNum, Num(3)}}
    \cup {[NullActivity EXCEPT !.VAAGR8 = a, !.VAAGR10 = b] :
            a \in {NullNum, Num(0), Num(5)}, b \in {NullNum, Num(2)}}
    \cup {[NullActivity EXCEPT !.VAAGR9 = a, !.VAAGR11 = b] :
            a \in {NullNum, Num(0), Num(5)}, b \in {NullNum, Num(2)}}

\* indicators_metadata.csv: code, designation and unite of an indicator
MetadataEntry(code, unite) == [code |-> code, designation |-> Designation(code), unite |-> unite]

METADATA ==
    <<MetadataEntry("IR-1", "percent"), MetadataEntry("IR-2", "count"),
      MetadataEntry("IR-3", "surface"), MetadataEntry("IRI-10", "count"),
      MetadataEntry("IRI-101", "count"), MetadataEntry("IRI-102", "count"),
      MetadataEntry("IRI-103", "count"), MetadataEntry("IRI-131", "count"),
      MetadataEntry("IRI-132", "count"), MetadataEntry("IRI-133", "count"),
      MetadataEntry("IRI-16", "percent")>>

\* the metadata, the metadata without one of its entries, and the metadata
\* with a second entry for one of its codes
MetadataTables ==
    {METADATA}
    \cup {SelectSeq(METADATA, LAMBDA m : m.code # METADATA[k].code) : k \in 1..Len(METADATA)}
    \cup {Append(METADATA, [METADATA[k] EXCEPT !.designation = "bis"]) :
            k \in 1..Len(METADATA)}

\* a row of cdr_praps1_initial_values.csv, as pl.read_csv returns it: the
\* columns Code, année, Pays and valeur
Praps1Row(code, pays, valeur) ==
    [Code |-> code, annee |-> 2021, Pays |-> pays, valeur |-> valeur]

LegacyRows ==
    {Praps1Row("IR-1", "ML", Num(50)), Praps1Row("IRI-10", "REGIONAL", Num(3)),
     Praps1Row("Reg Int 7", "REGIONAL", Num(25)), Praps1Row("IRI-10", "XX", Num(1))}

ROLE_COLUMNS == {IGVAC.roles, CRDURA.roles, IGPE.roles, IGMB.roles}

\* files from which every calculator of the model returns a row
DefaultFiles ==
    [indicateurs_pays |-> <<PaysRecord(2022, Num(2), Num(1), Num(1))>>,
     gestion_durable |->
        <<GestionRecord(2023, Amounts, <<"Oui", "Oui", "Oui", "Oui">>, <<"Oui", "Oui", "Oui">>)>>,
     parcs_de_vaccination |->
        <<CouncilRecord(IGVAC, "Oui", Num(20), Num(3), List(<<"Président (e)">>))>>,
     points_d_eau |->
        <<CouncilRecord(IGPE, "Oui", Num(20), Num(2), List(<<"Président (e)">>))>>,
     marches_a_betail |->
        <<CouncilRecord(IGMB, "Oui", Num(20), Num(3), List(<<"Membre">>))>>,
     sous_projets |->
        <<[NullProject EXCEPT !.VAINO6 = Num(5), !.VAINO7 = Num(2), !.VAINO9 = Num(1),
                              !.VAINO10 = Num(1), !.VAINO15 = Num(0), !.VAINO16 = Num(0),
                              !.VAINO17 = Num(1), !.VAINO18 = Num(1)]>>,
     activites |->
        <<[NullActivity EXCEPT !.VAAGR6 = Num(4), !.VAAGR7 = Num(3), !.VAAGR8 = Num(1),
                               !.VAAGR9 = Num(1)]>>,
     praps1 |-> <<Praps1Row("IR-1", "ML", Num(50))>>,
     indicators_metadata |-> METADATA,
     columns |-> ROLE_COLUMNS]

\* the files of a run: the default files with one of them replaced by a
\* table of at most MaxRows records
InitCombine ==
    /\ pc = "surveys"
    /\ \/ \E n \in 0..MaxRows : \E t \in [1..n -> PaysRecords] :
             survey = [DefaultFiles EXCEPT !.indicateurs_pays = t]
       \/ \E n \in 0..MaxRows : \E t \in [1..n -> GestionRecords] :
             survey = [DefaultFiles EXCEPT !.gestion_durable = t]
       \/ \E n \in 0..MaxRows : \E t \in [1..n -> CouncilRecords(IGVAC)] :
             survey = [DefaultFiles EXCEPT !.parcs_de_vaccination = t]
       \/ \E n \in 0..MaxRows : \E t \in [1..n -> ProjectRecords] :
             survey = [DefaultFiles EXCEPT !.sous_projets = t]
       \/ \E n \in 0..MaxRows : \E t \in [1..n -> ActivityRecords] :
             survey = [DefaultFiles EXCEPT !.activites = t]
       \/ \E n \in 0..MaxRows : \E t \in [1..n -> LegacyRows] :
             survey = [DefaultFiles EXCEPT !.praps1 = t]
       \/ \E t \in MetadataTables :
             survey = [DefaultFiles EXCEPT !.indicators_metadata = t]
       \/ \E c \in SUBSET ROLE_COLUMNS :
             survey = [DefaultFiles EXCEPT !.columns = c]
    /\ input = NoTable
    /\ df = NoTable
    /\ src = NoTable
    /\ per_region = NoTable
    /\ per_country = NoTable
    /\ regional = NoTable
    /\ NoFiles

\* df = indicators.combine_indicators(...)
Combine ==
    /\ pc = "surveys"
    /\ \E res \in CombineIndicators(survey) :
          /\ df' = res.df
          /\ pc' = IF res.ok THEN "combined" ELSE "failed"
    /\ UNCHANGED <<survey, input, src, per_region, per_country, regional>>
    /\ UNCHANGED fileVars

\* df = indicators.join_metadata(df, indicators_metadata=...)
JoinMetadataTask ==
    /\ pc = "combined"
    /\ df' = JoinMetadata(df, survey.indicators_metadata)
    /\ src' = df
    /\ pc' = "with_metadata"
    /\ UNCHANGED <<survey, input, per_region, per_country, regional>>
    /\ UNCHANGED fileVars

NextCombine == Combine \/ JoinMetadataTask

SpecCombine == InitCombine /\ [][NextCombine]_vars

\* ------------------------------------------------------------------------
\* extract_surveys/surveys.py : concatenate_snapshots
\* ------------------------------------------------------------------------
\* The DATE column: a null, or a date held as its year and its day
NoDate == [k |-> "null", year |-> 0, day |-> 0]

Date(year, day) == [k |-> "date", year |-> year, day |-> day]

\* order of the rows in sort(by="DATE"), for rows that hold a date
DateLess(r1, r2) ==
    LexLess(<<r1.DATE.year, r1.DATE.day>>, <<r2.DATE.year, r2.DATE.day>>)

\* UniqueLast keeping the first row of every key
UniqueFirst(t, subset) ==
    LET kept == {k \in 1..Len(t) :
                    \A j \in 1..(k - 1) : Key(t[j], subset) # Key(t[k], subset)}
    IN {[i \in 1..Cardinality(kept) |-> t[o[i]]] : o \in Orderings(kept)}

\* DataFrame.unique(subset=..., keep="last"): the last row of every key, the
\* rows in any order (maintain_order is not set)
UniqueLast(t, subset) ==
    LET kept == {k \in 1..Len(t) :
                    \A j \in (k + 1)..Len(t) : Key(t[j], subset) # Key(t[k], subset)}
    IN {[i \in 1..Cardinality(kept) |-> t[o[i]]] : o \in Orderings(kept)}

\* the snapshot of one year: its possible tables
Snapshot(t, year) ==
    LET upto == SelectSeq(t, LAMBDA r : r.DATE.k = "date" /\ r.DATE.year <= year)
    IN UNION {{MapSeq(u, LAMBDA r : r @@ [over_year |-> year]) :
                 u \in UniqueLast(sorted, {"infrastructure_id"})} :
              sorted \in SortOutcomes(upto, DateLess)}

\* pl.concat of the snapshots of the years first..last
RECURSIVE SnapshotsFrom(_, _, _)
SnapshotsFrom(t, first, last) ==
    IF first > last THEN {<<>>}
    ELSE {s \o rest : s \in Snapshot(t, first), rest \in SnapshotsFrom(t, first + 1, last)}

\* concatenate_snapshots.  min() and max() skip the nulls and are None when
\* no row holds a date: None.year raises.
ConcatenateSnapshots(t) ==
    LET years == {t[k].DATE.year : k \in {j \in 1..Len(t) : t[j].DATE.k = "date"}}
    IN IF years = {} THEN Raised
       ELSE Returned(SnapshotsFrom(t, CHOOSE y \in years : \A z \in years : y <= z,
                                   SetMax(years)))

\* ------------------------------------------------------------------------
\* extract_surveys/pipeline.py : the transform task on one survey with
\* infrastructures, from its raw records to its snapshots
\* ------------------------------------------------------------------------
Days == {1, 2}

Dates == {NoDate} \cup {Date(y, d) : y \in 2021..MaxYear, d \in Days}

\* raw records of one locality: coordinates (level_7), none or one of three
\* points on a line, neighbours within min_distance, and a DATE
DatedRows ==
    [localite : {"a"},
     coordinates : {<<>>} \cup {<<lat, 0>> : lat \in {l \in Lats : l <= 12}},
     DATE : Dates]

InitSnapshots ==
    /\ pc = "survey"
    /\ \E n \in 0..MaxSurvey : survey \in [1..n -> DatedRows]
    /\ input = NoTable
    /\ df = NoTable
    /\ src = NoTable
    /\ per_region = NoTable
    /\ per_country = NoTable
    /\ regional = NoTable
    /\ NoFiles

\* snapshots = surveys.concatenate_snapshots(df, column_unique_id="infrastructure_id")
ConcatenateSnapshotsTask ==
    /\ pc = "deduplicated"
    /\ LET res == ConcatenateSnapshots(survey)
       IN IF res.ok
          THEN /\ df' \in res.outcomes
               /\ pc' = "snapshots"
          ELSE /\ df' = NoTable
               /\ pc' = "failed"
    /\ src' = survey
    /\ UNCHANGED <<survey, input, per_region, per_country, regional>>
    /\ UNCHANGED fileVars

NextSnapshots == Deduplicate \/ ConcatenateSnapshotsTask

SpecSnapshots == InitSnapshots /\ [][NextSnapshots]_vars

\* ------------------------------------------------------------------------
\* extract_surveys/pipeline.py : the loop of the transform task, and
\* sync_attachments/pipeline.py : the loop of download_attachments
\* ------------------------------------------------------------------------
\* the names of SURVEYS in extract_surveys/pipeline.py
SURVEYS ==
    <<"indicateurs_regionaux", "indicateurs_pays", "marches_a_betail",
      "parcs_de_vaccination", "points_d_eau", "unites_veterinaires", "fourrage_cultive",
      "sous_projets_innovants", "gestion_durable_des_paysages",
      "activites_generatrices_de_revenus">>

\* SURVEYS in sync_attachments/pipeline.py
SYNC_SURVEYS ==
    <<"marches_a_betail", "parcs_de_vaccination", "points_d_eau", "unites_veterinaires",
      "fourrage_cultive", "gestion_durable_des_paysages",
      "activites_generatrices_de_revenus">>

\* what is at the path of a survey: no file, a file whose table holds dated
\* records, or a file whose table holds no dated record
FileKinds == {"missing", "dated", "undated"}

InitFiles ==
    /\ \/ pc = "transform" /\ todo = SURVEYS
       \/ pc = "download_attachments" /\ todo = SYNC_SURVEYS
    /\ files \in [{todo[k] : k \in 1..Len(todo)} -> FileKinds]
    /\ log = <<>>
    /\ done = {}
    /\ survey = NoTable
    /\ input = NoTable
    /\ df = NoTable
    /\ src = NoTable
    /\ per_region = NoTable
    /\ per_country = NoTable
    /\ regional = NoTable

\* one pass of the loop of transform: a missing file is logged and skipped;
\* a file is read, transformed and written, and, but for the two indicator
\* surveys, its snapshots are made, which raises when no record holds a date
TransformSurveyFile ==
    /\ pc = "transform"
    /\ todo # <<>>
    /\ LET name == Head(todo)
       IN IF files[name] = "missing"
          THEN /\ log' = Append(log, name)
               /\ todo' = Tail(todo)
               /\ UNCHANGED <<pc, done>>
          ELSE IF /\ name \notin {"indicateurs_regionaux", "indicateurs_pays"}
                  /\ files[name] = "undated"
               THEN /\ pc' = "transform failed"
                    /\ UNCHANGED <<todo, log, done>>
               ELSE /\ done' = done \cup {name}
                    /\ todo' = Tail(todo)
                    /\ UNCHANGED <<pc, log>>
    /\ UNCHANGED <<survey, input, df, src, per_region, per_country, regional, files>>

\* return True
TransformReturn ==
    /\ pc = "transform"
    /\ todo = <<>>
    /\ pc' = "transform returned"
    /\ UNCHANGED <<survey, input, df, src, per_region, per_country, regional, files, todo,
                   log, done>>

\* one pass of the loop of download_attachments: a missing file is logged,
\* and pl.read_parquet is called whether the file exists or not
DownloadSurveyAttachments ==
    /\ pc = "download_attachments"
    /\ todo # <<>>
    /\ LET survey_ == Head(todo)
       IN IF files[survey_] = "missing"
          THEN /\ log' = Append(log, survey_)
               /\ pc' = "download_attachments failed"
               /\ UNCHANGED <<todo, done>>
          ELSE /\ done' = done \cup {survey_}
               /\ todo' = Tail(todo)
               /\ UNCHANGED <<pc, log>>
    /\ UNCHANGED <<survey, input, df, src, per_region, per_country, regional, files>>

\* return True
DownloadReturn ==
    /\ pc = "download_attachments"
    /\ todo = <<>>
    /\ pc' = "download_attachments returned"
    /\ UNCHANGED <<survey, input, df, src, per_region, per_country, regional, files, todo,
                   log, done>>

NextFiles ==
    TransformSurveyFile \/ TransformReturn \/ DownloadSurveyAttachments \/ DownloadReturn

SpecFiles == InitFiles /\ [][NextFiles]_vars

\* ------------------------------------------------------------------------
\* Properties of the deduplicator
\* ------------------------------------------------------------------------
Deduplicated == pc = "deduplicated"

Records == 1..Len(survey)

\* two records the specification calls duplicates of each other
WithinThreshold(a, b) ==
    /\ a # b
    /\ survey[a].localite = survey[b].localite
    /\ survey[a].localite \notin {None, ""}
    /\ Len(survey[a].coordinates) > 0
    /\ Len(survey[b].coordinates) > 0
    /\ Haversine(survey[a].coordinates[1], survey[a].coordinates[2],
                 survey[b].coordinates[1], survey[b].coordinates[2]) <= MinDistance

SameId(a, b) == survey[a].infrastructure_id = survey[b].infrastructure_id

\* C1: if (A,B) and (B,C) are both within the threshold in one non-empty
\* locality, then A, B and C carry the same infrastructure_id, whatever
\* their row order and even when A and C are further apart.
C1_DedupTransitivity ==
    Deduplicated =>
        \A a, b, c \in Records :
            (WithinThreshold(a, b) /\ WithinThreshold(b, c) /\ a # c)
                => (SameId(a, b) /\ SameId(b, c) /\ SameId(a, c))

\* C2: any two records of one non-empty locality, both with coordinates and
\* at most min_distance apart, carry the same infrastructure_id.
C2_DirectDuplicatesShareId ==
    Deduplicated =>
        \A a, b \in Records : WithinThreshold(a, b) => SameId(a, b)

\* C3: two records whose locality names differ never carry the same
\* infrastructure_id, however close their coordinates are.
C3_LocalityIsolation ==
    Deduplicated =>
        \A a, b \in Records :
            survey[a].localite # survey[b].localite => ~SameId(a, b)

\* two records of different named localities at the same point, one of them
\* merged with a third record of its own locality
C3_Witness ==
    /\ Deduplicated
    /\ \E a, b, c \in Records :
          /\ survey[a].localite = "a"
          /\ survey[b].localite = "b"
          /\ survey[a].coordinates # <<>>
          /\ survey[a].coordinates = survey[b].coordinates
          /\ a # c
          /\ SameId(a, c)

\* ------------------------------------------------------------------------
\* Properties of the spatial aggregator
\* ------------------------------------------------------------------------
Aggregated == pc = "aggregated"

\* the rows a roll reads, the rows it returns and the columns it groups by
RollInput(level) ==
    SelectSeq(input \o per_region \o per_country, LAMBDA r : r.level = level)

RollOutput(level) ==
    CASE level = 6 -> per_region
      [] level = 3 -> per_country
      [] level = 2 -> regional

RollColumns(level) ==
    CASE level = 6 -> AGG_COLUMNS \ {"level"}
      [] level = 3 -> AGG_COLUMNS \ {"level", "region"}
      [] level = 2 -> AGG_COLUMNS \ {"level", "region", "country"}

RollLevels == {6, 3, 2}

\* the rows of one unit class a roll reads, and their groups
RollGroupKeys(level, InClass(_)) ==
    Keys(SelectSeq(RollInput(level), InClass), RollColumns(level))

RollGroup(level, key, InClass(_)) ==
    SelectSeq(RollInput(level),
              LAMBDA r : InClass(r) /\ Key(r, RollColumns(level)) = key)

\* the rows a roll returns for a group
RolledUp(level, key) ==
    SelectSeq(RollOutput(level), LAMBDA r : Key(r, RollColumns(level)) = key)

IsPercent(r) == r.unit = "percent"

IsBoolean(r) == r.unit = "boolean"

IsCount(r) == r.unit \in COUNT_UNITS

\* value = (sum of numerators) / (sum of denominators), cross-multiplied
IsWeightedRatio(value, group) ==
    LET sn == SumNums(Column(group, "numerator"))
        sd == SumNums(Column(group, "denominator"))
    IN IsNum(value) /\ value.n * sd.n * sn.d = sn.n * sd.d * value.d

\* C4: at each of the three rolls, a group of percent rows that all have a
\* numerator and a denominator rolls up to one row whose value is the sum of
\* the numerators over the sum of the denominators.
C4_RatioAggregationWeighted ==
    Aggregated =>
        \A level \in RollLevels :
            \A key \in RollGroupKeys(level, IsPercent) :
                LET group == RollGroup(level, key, IsPercent)
                    rolled == RolledUp(level, key)
                IN (\A k \in 1..Len(group) : HasNumDen(group[k]))
                       => /\ Len(rolled) = 1
                          /\ IsWeightedRatio(rolled[1].value, group)

\* a roll of two or more ratio rows whose weighted ratio is not their mean
C4_Witness ==
    /\ Aggregated
    /\ \E level \in RollLevels :
          \E key \in RollGroupKeys(level, IsPercent) :
              LET group == RollGroup(level, key, IsPercent)
              IN /\ Len(group) >= 2
                 /\ \A k \in 1..Len(group) : HasNumDen(group[k])
                 /\ Len(RolledUp(level, key)) = 1
                 /\ RolledUp(level, key)[1].value # MeanNums(Column(group, "value"))

IsTrue(x) == IsNum(x) /\ x.n # 0

IsFalse(x) == IsNum(x) /\ x.n = 0

\* C5: a group of boolean rows rolls up to 1 when every value is true and to
\* 0 as soon as one value is false.
C5_BooleanAggregationIsAnd ==
    Aggregated =>
        \A level \in RollLevels :
            \A key \in RollGroupKeys(level, IsBoolean) :
                LET group == RollGroup(level, key, IsBoolean)
                    rolled == RolledUp(level, key)
                IN /\ Len(rolled) = 1
                   /\ (\A k \in 1..Len(group) : IsTrue(group[k].value))
                          => rolled[1].value = Num(1)
                   /\ (\E k \in 1..Len(group) : IsFalse(group[k].value))
                          => rolled[1].value = Num(0)

\* a group holding a true and a false value, rolled up to 0
C5_Witness ==
    /\ Aggregated
    /\ \E level \in RollLevels :
          \E key \in RollGroupKeys(level, IsBoolean) :
              LET group == RollGroup(level, key, IsBoolean)
              IN /\ \E k \in 1..Len(group) : IsTrue(group[k].value)
                 /\ \E k \in 1..Len(group) : IsFalse(group[k].value)
                 /\ Len(RolledUp(level, key)) = 1
                 /\ RolledUp(level, key)[1].value = Num(0)

\* the rows of one indicator in a table
OfCode(t, code) == SelectSeq(t, LAMBDA r : r.indicator_code = code)

Codes(t) == {t[k].indicator_code : k \in 1..Len(t)}

\* a count indicator whose input holds level-6 rows of one project only
CountFromLocalities(code) ==
    LET rows == OfCode(input, code)
    IN /\ Len(rows) > 0
       /\ \A k \in 1..Len(rows) :
             IsCount(rows[k]) /\ rows[k].level = 6 /\ rows[k].project = rows[1].project

\* the rows of table t at one level whose columns cols equal those of key
AtLevel(t, level, key, cols) ==
    SelectSeq(t, LAMBDA r : r.level = level /\ Key(r, cols) = key)

SumOfValues(t) == SumNums(Column(t, "value"))

\* the three levels of a count indicator seeded by level-6 rows
CountRollUp(code) ==
    LET seed == OfCode(input, code)
        out == OfCode(df, code)
        K3 == {"date", "country", "region"}
        K2 == {"date", "country"}
        K1 == {"date"}
    IN /\ \A key \in Keys(seed, K3) :
             LET rows == AtLevel(out, 3, key, K3)
             IN Len(rows) = 1 /\ rows[1].value = SumOfValues(AtLevel(seed, 6, key, K3))
       /\ \A k \in 1..Len(out) : out[k].level = 3 => Key(out[k], K3) \in Keys(seed, K3)
       /\ \A key \in Keys(seed, K2) :
             LET rows == AtLevel(out, 2, key, K2)
             IN /\ Len(rows) = 1
                /\ rows[1].region = None
                /\ rows[1].value = SumOfValues(AtLevel(out, 3, key, K2))
       /\ \A k \in 1..Len(out) : out[k].level = 2 => Key(out[k], K2) \in Keys(seed, K2)
       /\ \A key \in Keys(seed, K1) :
             LET rows == AtLevel(out, 1, key, K1)
             IN /\ Len(rows) = 1
                /\ rows[1].country = "Régional"
                /\ rows[1].value = SumOfValues(AtLevel(out, 2, key, K1))
       /\ \A k \in 1..Len(out) : out[k].level = 1 => Key(out[k], K1) \in Keys(seed, K1)
       /\ \A k \in 1..Len(out) : out[k].level \in {1, 2, 3}

CumulatedStage == pc = "cumulated"

SameWindow(r1, r2) == r1.level = r2.level /\ Key(r1, WINDOW) = Key(r2, WINDOW)

NonNegativeWindow(r) ==
    \A k \in 1..Len(df) :
        SameWindow(df[k], r) => (IsNull(df[k].value) \/ Leq(Num(0), df[k].value))

\* C7: for count rows of one level and one (indicator_code, country,
\* region), cumulated_value at a later year is at least cumulated_value at
\* an earlier year when the values of the group are non-negative or null.
C7_CountCumulationMonotone ==
    CumulatedStage =>
        \A j, k \in 1..Len(df) :
            (/\ IsCount(df[j])
             /\ SameWindow(df[j], df[k])
             /\ df[j].date < df[k].date
             /\ NonNegativeWindow(df[j]))
                => Leq(df[j].cumulated_value, df[k].cumulated_value)

\* a running sum that grows from one year to a later one
C7_Witness ==
    /\ CumulatedStage
    /\ \E j, k \in 1..Len(df) :
          /\ IsCount(df[j])
          /\ SameWindow(df[j], df[k])
          /\ df[j].date < df[k].date
          /\ Leq(Num(1), df[j].cumulated_value)
          /\ ~Leq(df[k].cumulated_value, df[j].cumulated_value)

\* C8: cumulated_value_praps2 is null for every row whose project is
\* "PRAPS1", whatever its unit and value.
C8_PhaseReset ==
    CumulatedStage =>
        \A k \in 1..Len(df) :
            df[k].project = "PRAPS1" => IsNull(df[k].cumulated_value_praps2)

\* ------------------------------------------------------------------------
\* Properties of the missing-value filler
\* ------------------------------------------------------------------------
Filled == pc = "filled"

\* the countries an indicator has at level 2 in the table the filler gets
CountriesAtLevel2(code) ==
    {r.country : r \in {x \in Rows(src) : x.indicator_code = code /\ x.level = 2}}

FillYears == 2021..SetMax({src[k].date : k \in 1..Len(src)})

CountryLevelRows(code, year, country) ==
    SelectSeq(df, LAMBDA r : /\ r.indicator_code = code
                             /\ r.date = year
                             /\ r.country = country
                             /\ r.level = 2
                             /\ r.region = None)

\* C9: after fill_missing_values there is exactly one country-level row for
\* every indicator code, every year from 2021 to the maximum year and every
\* country present at level 2 for that indicator.
C9_FillerCompleteness ==
    Filled =>
        \A code \in Codes(src) :
            \A year \in FillYears :
                \A country \in CountriesAtLevel2(code) :
                    Len(CountryLevelRows(code, year, country)) = 1

\* C10: the output row of every key (indicator_code, date, country, region)
\* that has a row in the input of fill_missing_values is a row of the
\* input, never a placeholder.
C10_FillersNeverOverwrite ==
    Filled =>
        \A k \in 1..Len(df) :
            Key(df[k], FILL_KEY) \in Keys(src, FILL_KEY) => df[k] \in Rows(src)

\* a placeholder was generated for the key of a row of the input, and the
\* output holds the row of the input for that key
C10_Witness ==
    /\ Filled
    /\ \E k \in 1..Len(df) :
          /\ ~IsNull(df[k].value)
          /\ df[k] \in Rows(src)
          /\ Key(df[k], FILL_KEY) \in Keys(DfNulls(src), FILL_KEY)

\* ------------------------------------------------------------------------
\* Properties of join_metadata
\* ------------------------------------------------------------------------
WithMetadata == pc = "with_metadata"

\* no two entries of the metadata have the same code
OneEntryPerCode(metadata) ==
    \A j, k \in 1..Len(metadata) : j # k => metadata[j].code # metadata[k].code

HasEntry(metadata, code) == \E k \in 1..Len(metadata) : metadata[k].code = code

\* C11: with a metadata table of one entry per code, join_metadata returns
\* as many rows as it received, each with the fields of the row it comes
\* from; a row whose code has no entry has indicator_name and unit null.
C11_MetadataJoinKeepsRows ==
    (WithMetadata /\ OneEntryPerCode(survey.indicators_metadata)) =>
        /\ Len(df) = Len(src)
        /\ \A k \in 1..Len(df) :
              /\ Key(df[k], COLUMNS \ {"date"}) = Key(src[k], COLUMNS \ {"date"})
              /\ ~HasEntry(survey.indicators_metadata, src[k].indicator_code)
                    => (df[k].indicator_name = None /\ df[k].unit = None)

\* a table with a row whose code has no entry and a row whose code has one
C11_Witness ==
    /\ WithMetadata
    /\ OneEntryPerCode(survey.indicators_metadata)
    /\ Len(df) = Len(src)
    /\ \E j, k \in 1..Len(df) :
          /\ ~HasEntry(survey.indicators_metadata, src[j].indicator_code)
          /\ df[j].unit = None
          /\ ~IsNull(df[j].value)
          /\ HasEntry(survey.indicators_metadata, src[k].indicator_code)
          /\ df[k].unit # None

\* ------------------------------------------------------------------------
\* Properties of combine_indicators and of the calculators
\* ------------------------------------------------------------------------
\* combine_indicators was called: it returned or it raised
Called == pc \in {"combined", "failed"}

CalculatorCodes ==
    {"IR-1", "IR-2", "IR-3", "IRI-10", "IRI-101", "IRI-102", "IRI-103", "IRI-131",
     "IRI-132", "IRI-133", "IRI-16"}

\* what the calculator of a code does on the files of the run
Calculator(code) ==
    CASE code = "IR-1" -> Ir1(survey.indicateurs_pays)
      [] code = "IR-2" -> Ir2(survey.indicateurs_pays)
      [] code = "IR-3" -> Ir3(survey.gestion_durable)
      [] code = "IRI-10" -> Iri10(survey.sous_projets)
      [] code = "IRI-101" -> Iri101(survey.sous_projets)
      [] code = "IRI-102" -> Iri102(survey.sous_projets)
      [] code = "IRI-103" -> Iri103(survey.sous_projets)
      [] code = "IRI-131" -> Iri131(survey.activites)
      [] code = "IRI-132" -> Iri132(survey.activites)
      [] code = "IRI-133" -> Iri133(survey.activites)
      [] code = "IRI-16" -> Iri16(survey.parcs_de_vaccination, survey.gestion_durable,
                                  survey.points_d_eau, survey.marches_a_betail,
                                  survey.columns)

\* the calculator of a code has no eligible source row
NoEligibleRow(code) ==
    CASE code = "IR-1" ->
            \A k \in 1..Len(survey.indicateurs_pays) :
                IsNull(survey.indicateurs_pays[k].DATE8)
                    \/ IsNull(survey.indicateurs_pays[k].DATE9)
      [] code = "IR-2" ->
            \A k \in 1..Len(survey.indicateurs_pays) : IsNull(survey.indicateurs_pays[k].IR2)
      [] code = "IR-3" -> survey.gestion_durable = <<>>
      [] OTHER -> Calculator(code).ok /\ Calculator(code).outcomes = {<<>>}

\* the rows of the current phase in the combined table, for one code
Praps2RowsOf(code) ==
    SelectSeq(df, LAMBDA r : r.project = "PRAPS2" /\ r.indicator_code = code)

\* the two failures that do not come from an empty result
DividesByZero ==
    \E k \in 1..Len(survey.indicateurs_pays) :
        /\ ~IsNull(survey.indicateurs_pays[k].DATE9)
        /\ ~IsNull(survey.indicateurs_pays[k].DATE8)
        /\ survey.indicateurs_pays[k].DATE8.n = 0

NoRoleColumn == survey.columns = {}

\* C12: when a calculator has no eligible source row, combine_indicators
\* returns; its table holds no current-phase row of that indicator, the rows
\* of every other calculator and the legacy rows.
C12_EmptyResultSkip ==
    (/\ Called
     /\ \E code \in CalculatorCodes : NoEligibleRow(code)
     /\ ~DividesByZero
     /\ ~NoRoleColumn) =>
        /\ pc = "combined"
        /\ \A code \in CalculatorCodes :
              IF NoEligibleRow(code) THEN Praps2RowsOf(code) = <<>>
              ELSE /\ Calculator(code).ok
                   /\ \E t \in Calculator(code).outcomes :
                         /\ Len(t) = Len(Praps2RowsOf(code))
                         /\ \A k \in 1..Len(t) : Praps2RowsOf(code)[k].value = t[k].value
        /\ SubSeq(df, 1, Len(survey.praps1)) = DiagonalRelaxed(<<survey.praps1>>)
        /\ \A k \in (Len(survey.praps1) + 1)..Len(df) : df[k].project = "PRAPS2"

\* the rows of the tables of iri_16 that have their role column
RowsOfSourcesWithColumn ==
    (IF IGVAC.roles \in survey.columns
     THEN Iri16Source(survey.parcs_de_vaccination, IGVAC) ELSE <<>>)
    \o (IF CRDURA.roles \in survey.columns
        THEN Iri16Source(survey.gestion_durable, CRDURA) ELSE <<>>)
    \o (IF IGPE.roles \in survey.columns
        THEN Iri16Source(survey.points_d_eau, IGPE) ELSE <<>>)
    \o (IF IGMB.roles \in survey.columns
        THEN Iri16Source(survey.marches_a_betail, IGMB) ELSE <<>>)

\* C13: whichever of the four tables lack their role column, all four
\* included, iri_16 returns, and it returns exactly the rows of the tables
\* that have the column.
C13_Iri16SchemaDriftSkip ==
    Called =>
        /\ Calculator("IRI-16").ok
        /\ Calculator("IRI-16").outcomes = {RowsOfSourcesWithColumn}
        /\ pc = "combined" =>
              Column(Praps2RowsOf("IRI-16"), "value") = Column(RowsOfSourcesWithColumn, "value")

\* the country records that hold both counts of IR-1
WithBothCounts ==
    SelectSeq(survey.indicateurs_pays, LAMBDA row : ~IsNull(row.DATE9) /\ ~IsNull(row.DATE8))

\* C14: ir_1 returns, whatever DATE8 and DATE9 are, one row per country
\* record that holds both counts, with value DATE9 / DATE8 rounded to three
\* decimals.
C14_Ir1ViolationsNonFatal ==
    Called =>
        /\ Calculator("IR-1").ok
        /\ \A t \in Calculator("IR-1").outcomes :
              /\ Len(t) = Len(WithBothCounts)
              /\ \A k \in 1..Len(t) :
                    /\ t[k].indicator_code = "IR-1"
                    /\ t[k].value = Round3(WithBothCounts[k].DATE9.n, WithBothCounts[k].DATE8.n)
        /\ pc = "combined" => Len(Praps2RowsOf("IR-1")) = Len(WithBothCounts)

\* C15: every row a calculator returned, so every current-phase row of the
\* combined table, holds a value; so does every IRI-133 row.
C15_ValuePresence ==
    pc = "combined" =>
        \A k \in 1..Len(df) : df[k].project = "PRAPS2" => ~IsNull(df[k].value)

\* ------------------------------------------------------------------------
\* Properties of the output of spatial_aggregation
\* ------------------------------------------------------------------------
\* the rows of the input that are reported at level 1, 2 or 3
DirectRows == SelectSeq(input, LAMBDA r : r.level <= 3)

AggregatedRows == per_region \o per_country \o regional

\* C16: every row spatial_aggregation returns has level 1, 2 or 3, no two
\* of them have the same (indicator_code, date, level, country, region), and
\* the row of a key that a directly reported row has is the first directly
\* reported row of that key.
C16_AggregatorOutputShape ==
    Aggregated =>
        /\ \A k \in 1..Len(df) : df[k].level \in {1, 2, 3}
        /\ \A j, k \in 1..Len(df) : j # k => Key(df[j], AGG_KEY) # Key(df[k], AGG_KEY)
        /\ \A k \in 1..Len(df) :
              LET same == SelectSeq(DirectRows,
                                    LAMBDA r : Key(r, AGG_KEY) = Key(df[k], AGG_KEY))
              IN same # <<>> => df[k] = same[1]

\* a directly reported row and a different aggregated row of the same key;
\* the table returned holds the first and not the second
C16_Witness ==
    /\ Aggregated
    /\ \E j \in 1..Len(DirectRows) :
          \E k \in 1..Len(AggregatedRows) :
              /\ Key(DirectRows[j], AGG_KEY) = Key(AggregatedRows[k], AGG_KEY)
              /\ DirectRows[j] # AggregatedRows[k]
              /\ DirectRows[j] \in Rows(df)
              /\ AggregatedRows[k] \notin Rows(df)
    /\ \E k \in 1..Len(input) : input[k].level = 6

\* ------------------------------------------------------------------------
\* Properties of iri_16, ir_3 and the beneficiary counts
\* ------------------------------------------------------------------------
\* the committee fields of the records of a table, under common names
Councils(t, f) ==
    [k \in 1..Len(t) |->
        [committee |-> t[k][f.committee], members |-> t[k][f.members],
         women |-> t[k][f.women], roles |-> t[k][f.roles]]]

\* the records iri_16 reads: those of the tables that have their role column
CouncilsRead ==
    (IF IGVAC.roles \in survey.columns
     THEN Councils(survey.parcs_de_vaccination, IGVAC) ELSE <<>>)
    \o (IF CRDURA.roles \in survey.columns
        THEN Councils(survey.gestion_durable, CRDURA) ELSE <<>>)
    \o (IF IGPE.roles \in survey.columns
        THEN Councils(survey.points_d_eau, IGPE) ELSE <<>>)
    \o (IF IGMB.roles \in survey.columns
        THEN Councils(survey.marches_a_betail, IGMB) ELSE <<>>)

\* members > 0, women >= 15% of the members, a woman in a leading role
Adequate(c) ==
    /\ IsNum(c.members)
    /\ c.members.n > 0
    /\ IsNum(c.women)
    /\ 100 * c.women.n * c.members.d >= 15 * c.members.n * c.women.d
    /\ c.roles.k = "list"
    /\ \E i \in 1..Len(c.roles.items) : c.roles.items[i] \in LEADING_ROLES

\* C17: the IRI-16 rows are, in order, those of the records whose committee
\* field is "Oui": denominator 1, numerator = value, value 1 when the
\* committee is adequate and 0 when it is not; the other records give no row.
C17_Iri16AdequacyFlag ==
    pc = "combined" =>
        LET councils == SelectSeq(CouncilsRead, LAMBDA c : c.committee = "Oui")
            rows == Praps2RowsOf("IRI-16")
        IN /\ Len(rows) = Len(councils)
           /\ \A k \in 1..Len(rows) :
                 /\ rows[k].denominator = Num(1)
                 /\ rows[k].numerator = rows[k].value
                 /\ rows[k].value = IF Adequate(councils[k]) THEN Num(1) ELSE Num(0)

\* a committee that is adequate, one that exists and is not, one that does
\* not exist, and the two rows
C17_Witness ==
    /\ pc = "combined"
    /\ \E i, j, k \in 1..Len(CouncilsRead) :
          /\ CouncilsRead[i].committee = "Oui" /\ Adequate(CouncilsRead[i])
          /\ CouncilsRead[j].committee = "Oui" /\ ~Adequate(CouncilsRead[j])
          /\ CouncilsRead[k].committee # "Oui"
    /\ \E j, k \in 1..Len(df) :
          /\ df[j].indicator_code = "IRI-16" /\ df[j].value = Num(1)
          /\ df[k].indicator_code = "IRI-16" /\ df[k].value = Num(0)

\* ------------------------------------------------------------------------
\* Properties of the geography of the placeholders
\* ------------------------------------------------------------------------
\* the rows fill_missing_values added
IsPlaceholder(r) == r \notin Rows(src)

\* C18: a level-2 placeholder of an indicator is for a country that has a
\* level-2 row of that same indicator in the input of fill_missing_values.
C18_FillerGeographyPerIndicator ==
    Filled =>
        \A k \in 1..Len(df) :
            (IsPlaceholder(df[k]) /\ df[k].level = 2)
                => df[k].country \in CountriesAtLevel2(df[k].indicator_code)

\* the IR-3 value of a landscape record as the rule states it: a sub-amount
\* counts when each of its condition fields holds "Oui"
Ir3Rule(row) ==
    LET Included(amount, conditions) ==
            IF \A c \in conditions : c = "Oui" THEN FillNull0(amount) ELSE Num(0)
    IN SumNums(<<Included(row.CRDURA6c,
                          {row.CRDURA7, row.CRDURA8, row.CRDURA11, row.CRDURA9}),
                 Included(row.CRDURA26c, {row.CRDURA24}),
                 Included(row.CRDURA43c, {row.CRDURA41}),
                 Included(row.CRDURA58c, {row.CRDURA56})>>)

\* C19: the IR-3 rows hold, record for record, the sum of the sub-amounts
\* whose condition fields all hold "Oui": CRDURA7, CRDURA8, CRDURA11 and
\* CRDURA9 for the first, CRDURA24, CRDURA41 and CRDURA56 for the others.
C19_Ir3CompositeEligibility ==
    pc = "combined" =>
        LET rows == Praps2RowsOf("IR-3")
        IN /\ Len(rows) = Len(survey.gestion_durable)
           /\ \E order \in Orderings(1..Len(rows)) :
                 \A k \in 1..Len(rows) :
                     rows[k].value = Ir3Rule(survey.gestion_durable[order[k]])

\* the sub-count fields of the six beneficiary counts and their tables
CountFields(code) ==
    CASE code = "IRI-10" -> <<"VAINO6", "VAINO13">>
      [] code = "IRI-101" -> <<"VAINO9", "VAINO11", "VAINO15", "VAINO17">>
      [] code = "IRI-102" -> <<"VAINO10", "VAINO12", "VAINO16", "VAINO18">>
      [] code = "IRI-103" -> <<"VAINO7", "VAINO14">>
      [] code = "IRI-131" -> <<"VAAGR8", "VAAGR10">>
      [] code = "IRI-132" -> <<"VAAGR9", "VAAGR11">>

CountTable(code) ==
    IF code \in {"IRI-131", "IRI-132"} THEN survey.activites ELSE survey.sous_projets

BeneficiaryCounts == {"IRI-10", "IRI-101", "IRI-102", "IRI-103", "IRI-131", "IRI-132"}

\* the sum of the sub-count fields of a record, a null field counted as 0
NullAsZeroSum(row, code) ==
    SumNums([i \in 1..Len(CountFields(code)) |-> FillNull0(row[CountFields(code)[i]])])

\* C20: the rows of a beneficiary count are, in order, those of the records
\* whose sum of sub-count fields, nulls counted as 0, is > 0, and their value
\* is that sum.
C20_BeneficiaryCounts ==
    pc = "combined" =>
        \A code \in BeneficiaryCounts :
            LET sums == [k \in 1..Len(CountTable(code)) |->
                            NullAsZeroSum(CountTable(code)[k], code)]
            IN Column(Praps2RowsOf(code), "value") = SelectSeq(sums, LAMBDA x : x.n > 0)

\* ------------------------------------------------------------------------
\* Properties of the legacy rows of the compute task
\* ------------------------------------------------------------------------
\* the rows the legacy file gives in the combined table: its first rows
LegacyRowsOfCombined == SubSeq(df, 1, Len(survey.praps1))

\* C21: in a run of the compute task the legacy rows of the combined table
\* are the rows load_praps1_data makes of the legacy file: a row per row of
\* the file, with its code, project "PRAPS1", level 1 for Pays = REGIONAL
\* and 2 otherwise, the full country name, and the value divided by 100 for
\* the codes IR-1, IRI-17, IRI-1, IRI-9 and "Reg Int 7".
C21_LegacyLoadedBeforeCombine ==
    pc = "combined" =>
        LegacyRowsOfCombined = DiagonalRelaxed(<<LoadPraps1Data(survey.praps1)>>)

\* ------------------------------------------------------------------------
\* Properties of cumulate_counts
\* ------------------------------------------------------------------------
\* the rows of the cumulated table that the group of row r (its level,
\* indicator_code, country and region) has in one project up to the year of r
GroupUpTo(r, project) ==
    SelectSeq(src, LAMBDA x : /\ x.level = r.level
                              /\ x.indicator_code = r.indicator_code
                              /\ x.country = r.country
                              /\ x.region = r.region
                              /\ x.project = project
                              /\ x.date <= r.date)

SumOfGroup(r, project) ==
    SumNums(MapSeq(GroupUpTo(r, project), LAMBDA x : FillNull0(x.value)))

\* C22: for every current-phase count row, cumulated_value_praps2 is the sum
\* of the values (nulls as 0) of the current-phase rows of its group up to
\* its year, and cumulated_value is that sum plus the sum of the values of
\* the legacy rows of the group up to its year.
C22_CurrentPhaseCumulation ==
    CumulatedStage =>
        \A k \in 1..Len(df) :
            (IsCount(df[k]) /\ df[k].project = "PRAPS2") =>
                /\ df[k].cumulated_value_praps2 = SumOfGroup(df[k], "PRAPS2")
                /\ df[k].cumulated_value
                      = Add(SumOfGroup(df[k], "PRAPS2"), SumOfGroup(df[k], "PRAPS1"))

\* a current-phase count row that holds a value, after a legacy row of its
\* group that holds a value
C22_Witness ==
    /\ CumulatedStage
    /\ \E k \in 1..Len(df) :
          /\ IsCount(df[k]) /\ df[k].project = "PRAPS2"
          /\ Leq(Num(1), SumOfGroup(df[k], "PRAPS1"))
          /\ ~IsNull(df[k].value)
          /\ df[k].cumulated_value # df[k].cumulated_value_praps2

\* ------------------------------------------------------------------------
\* Properties of cumulate_ratios
\* ------------------------------------------------------------------------
\* C23: for every current-phase percent row that holds a value, with or
\* without numerator and denominator, the cumulated denominator is a
\* non-zero number and cumulated_value and cumulated_value_praps2 are
\* numbers.
C23_CumulatedRatiosDefined ==
    CumulatedStage =>
        \A k \in 1..Len(df) :
            (IsPercent(df[k]) /\ df[k].project = "PRAPS2" /\ ~IsNull(df[k].value)) =>
                /\ IsNum(df[k].cumulated_denominator)
                /\ df[k].cumulated_denominator.n # 0
                /\ IsNum(df[k].cumulated_value)
                /\ IsNum(df[k].cumulated_value_praps2)

\* ------------------------------------------------------------------------
\* Properties of cumulate_indicators
\* ------------------------------------------------------------------------
\* a row of the cumulated table without the columns the cumulator adds
WithoutCumulated(r) == [c \in DOMAIN r \ {"cumulated_numerator", "cumulated_denominator",
                                          "cumulated_value", "cumulated_value_praps2"}
                           |-> r[c]]

\* C24: cumulate_indicators returns one row for every row of the filled
\* table, none dropped and none duplicated, whatever the unit of the row,
\* null included.
C24_CumulationPreservesRows ==
    CumulatedStage =>
        /\ Len(df) = Len(src)
        /\ \A j \in 1..Len(src) :
              Cardinality({k \in 1..Len(df) : WithoutCumulated(df[k]) = src[j]}) = 1

\* ------------------------------------------------------------------------
\* Properties of the rows the filler is given
\* ------------------------------------------------------------------------
\* C25: every row of the table spatial_aggregation returned is a row of the
\* table fill_missing_values returns, a level-3 row with a null region next
\* to the level-2 row of its indicator, date and country included.
C25_FillerOnlyAddsRows ==
    Filled => \A j \in 1..Len(src) : \E k \in 1..Len(df) : df[k] = src[j]

\* ------------------------------------------------------------------------
\* Properties of the levels of the aggregated table
\* ------------------------------------------------------------------------
\* the rows of table t for one indicator and date at one level
LevelRows(t, code, date, level) ==
    SelectSeq(t, LAMBDA r : r.indicator_code = code /\ r.date = date /\ r.level = level)

\* C26: for every count indicator and date without a directly reported
\* level-1 row, the level-1 rows of the aggregated table hold the sum of
\* the values of its level-2 rows for that indicator and date.
C26_LevelsConsistent ==
    Aggregated =>
        \A j \in 1..Len(df) :
            (/\ IsCount(df[j])
             /\ df[j].level = 1
             /\ LevelRows(src, df[j].indicator_code, df[j].date, 1) = <<>>)
                => df[j].value
                     = SumNums(Column(LevelRows(df, df[j].indicator_code, df[j].date, 2),
                                      "value"))

\* ------------------------------------------------------------------------
\* Properties of the infrastructure IDs
\* ------------------------------------------------------------------------
\* the record whose row index is id
RecordOfIndex(id) == id + 1

\* C27: every infrastructure_id of the table is the row index of a record
\* that carries that same infrastructure_id.
C27_IdsAreCanonical ==
    Deduplicated =>
        \A a \in Records :
            /\ RecordOfIndex(survey[a].infrastructure_id) \in Records
            /\ survey[RecordOfIndex(survey[a].infrastructure_id)].infrastructure_id
                  = survey[a].infrastructure_id

\* the records a chain of duplicate pairs links to one of the records of S
RECURSIVE LinkedTo(_)
LinkedTo(S) ==
    LET T == S \cup {b \in Records : \E a \in S : WithinThreshold(a, b)}
    IN IF T = S THEN S ELSE LinkedTo(T)

\* a record that can be in no duplicate pair
Unpaired(a) == survey[a].localite \in {None, ""} \/ Len(survey[a].coordinates) = 0

\* C28: two distinct records carry the same infrastructure_id only if a
\* chain of duplicate pairs links them; a record without coordinates or
\* without locality name keeps its row index, which no other record gets.
C28_NoFalseMerges ==
    Deduplicated =>
        /\ \A a, b \in Records : (a # b /\ SameId(a, b)) => b \in LinkedTo({a})
        /\ \A a \in Records :
              Unpaired(a) =>
                  /\ RecordOfIndex(survey[a].infrastructure_id) = a
                  /\ \A b \in Records : SameId(a, b) => a = b

\* two records merged through a third one, further apart than the
\* threshold, next to a record of their locality that has no coordinates
C28_Witness ==
    /\ Deduplicated
    /\ \E a, b, c \in Records :
          /\ a # b
          /\ SameId(a, b)
          /\ ~WithinThreshold(a, b)
          /\ survey[c].localite = survey[a].localite
          /\ Unpaired(c)

\* ------------------------------------------------------------------------
\* Properties of the yearly snapshots
\* ------------------------------------------------------------------------
\* the records of the table handed to concatenate_snapshots that hold a date
\* of year Y or before
DatedUpTo(Y) == {k \in 1..Len(src) : src[k].DATE.k = "date" /\ src[k].DATE.year <= Y}

RecordYears == {src[k].DATE.year : k \in {j \in 1..Len(src) : src[j].DATE.k = "date"}}

\* the rows of the snapshots tagged with year Y that carry one ID
SnapshotRows(Y, id) ==
    {k \in 1..Len(df) : df[k].over_year = Y /\ df[k].infrastructure_id = id}

\* row k of the snapshots is record j of the table, tagged
IsRecord(k, j) == df[k] = src[j] @@ [over_year |-> df[k].over_year]

\* C29: for every year Y from the earliest to the latest record year the
\* snapshots hold exactly one row tagged over_year = Y for each
\* infrastructure_id with a record dated in year Y or before, that row is a
\* record of that ID with the latest DATE among them, and no other row; an
\* ID of the snapshot of year Y is in the snapshot of every later year.
C29_YearlySnapshots ==
    pc = "snapshots" =>
        LET first == CHOOSE y \in RecordYears : \A z \in RecordYears : y <= z
            last == SetMax(RecordYears)
        IN /\ \A Y \in first..last :
                 \A j \in DatedUpTo(Y) :
                     /\ Cardinality(SnapshotRows(Y, src[j].infrastructure_id)) = 1
                     /\ \A k \in SnapshotRows(Y, src[j].infrastructure_id) :
                           /\ \E i \in DatedUpTo(Y) :
                                 /\ IsRecord(k, i)
                                 /\ src[i].infrastructure_id = src[j].infrastructure_id
                           /\ ~DateLess(df[k], src[j])
           /\ \A k \in 1..Len(df) :
                 /\ df[k].over_year \in first..last
                 /\ \E i \in DatedUpTo(df[k].over_year) : IsRecord(k, i)
                 /\ \A Y \in (df[k].over_year + 1)..last :
                       SnapshotRows(Y, df[k].infrastructure_id) # {}

\* an infrastructure with a record in one year and a later record in the
\* next: the snapshot of the first year holds the first record, the
\* snapshot of the next year the later one
C29_Witness ==
    /\ pc = "snapshots"
    /\ \E i, j \in 1..Len(src) : \E a, b \in 1..Len(df) :
          /\ i # j
          /\ src[i].infrastructure_id = src[j].infrastructure_id
          /\ src[i].DATE.k = "date" /\ src[j].DATE.k = "date"
          /\ src[i].DATE.year < src[j].DATE.year
          /\ df[a].over_year = src[i].DATE.year /\ IsRecord(a, i)
          /\ df[b].over_year = src[j].DATE.year /\ IsRecord(b, j)

\* ------------------------------------------------------------------------
\* Properties of the loops over the survey files
\* ------------------------------------------------------------------------
\* the task ended: it returned or it raised
Ended ==
    pc \in {"transform returned", "transform failed", "download_attachments returned",
            "download_attachments failed"}

\* the list of surveys of the task that runs
SurveyList ==
    IF DOMAIN files = {SURVEYS[k] : k \in 1..Len(SURVEYS)} THEN SURVEYS ELSE SYNC_SURVEYS

\* no survey file makes the task raise for want of a dated record
EveryFileDated == \A name \in DOMAIN files : files[name] # "undated"

\* C30: when survey files are missing, the task logs a warning for each of
\* them, skips it, processes every other survey of its list and returns; in
\* the transform task and in download_attachments alike.
C30_MissingFileSkipped ==
    (Ended /\ EveryFileDated) =>
        /\ pc \in {"transform returned", "download_attachments returned"}
        /\ log = SelectSeq(SurveyList, LAMBDA name : files[name] = "missing")
        /\ done = {name \in DOMAIN files : files[name] # "missing"}

====
